---- MODULE Spec2Model ----
(***************************************************************************)
(* Credit approval system (Django app `loans`): customers, loans, cached   *)
(* credit scores and loan applications, with the operations register,      *)
(* check-eligibility, create-loan, customer / loan ingestion and the       *)
(* credit-score refresh.                                                   *)
(*                                                                         *)
(* Units.  Money is an integer number of paise (1/100 rupee): every stored *)
(* DecimalField has two decimal places.  Rates are integers in 1/100 of a  *)
(* percent (12.00 % = 1200).  Dates are day numbers counted from           *)
(* 2025-01-01 (day 0); the years 2025..2027 have 365 days each.            *)
(* An optional value (Python None) is the empty sequence <<>>, a present   *)
(* value v is <<v>>.                                                       *)
(*                                                                         *)
(* Arithmetic.  The EMI is computed by the code in binary floating point;  *)
(* the model computes the same expression in exact rational arithmetic and *)
(* carries an unrounded result as q + r/d paise.  The float summation of   *)
(* the loan amounts in calculate_credit_score is modelled bit-exactly      *)
(* (IEEE-754 double, round to nearest even) because its result is          *)
(* truncated to an integer.                                                *)
(***************************************************************************)
EXTENDS Integers, Sequences, FiniteSets, TLC

VARIABLES
    customers,      \* table customers: sequence of rows, customer_id = index
    loans,          \* table loans: sequence of rows in insertion order
    credit_scores,  \* table credit_scores: sequence of rows
    applications,   \* table loan_applications: sequence of rows
    today,          \* date.today()
    resp,           \* the response of the last request / task step
    in_flight       \* the credit-score writers that are between two statements

vars == <<customers, loans, credit_scores, applications, today, resp, in_flight>>

db == <<customers, loans, credit_scores, applications>>

-----------------------------------------------------------------------------
(* Bounds of the model *)

MaxCustomers == 2
MaxLoans == 5
MaxApplications == 2
MaxScoreRows == 2
MaxWriters == 2

-----------------------------------------------------------------------------
(* Generic helpers *)

None == <<>>

Some(v) == <<v>>

Min(a, b) == IF a <= b THEN a ELSE b

Max(a, b) == IF a >= b THEN a ELSE b

Abs(a) == IF a < 0 THEN -a ELSE a

RECURSIVE Gcd(_, _)
Gcd(a, b) == IF b = 0 THEN a ELSE Gcd(b, a % b)

RECURSIVE Power(_, _)
Power(b, n) == IF n = 0 THEN 1 ELSE b * Power(b, n - 1)

\* a * b = q * c + r with 0 <= r < c, computed without forming a * b
RECURSIVE MulDivRem(_, _, _)
MulDivRem(a, b, c) ==
    IF b = 0 THEN [q |-> 0, r |-> 0]
    ELSE LET h == MulDivRem(a, b \div 2, c)
             tq == 2 * h.q + (b % 2) * (a \div c)
             tr == 2 * h.r + (b % 2) * (a % c)
         IN [q |-> tq + (tr \div c), r |-> tr % c]

SelectIdx(s, Test(_)) == {i \in 1..Len(s) : Test(s[i])}

-----------------------------------------------------------------------------
(* Inputs: the requests and the spreadsheets the model draws from *)

\* phone numbers: the number of digits and a tag standing for the digits
Phone(tag) == [digits |-> 10, tag |-> tag]

\* register request bodies: monthly_income in rupees, phone_number
RegisterRequests ==
    {[monthly_income |-> 50000, phone_number |-> Phone(2)],
     [monthly_income |-> 0, phone_number |-> Phone(2)]}

\* rows of the customer spreadsheet (amounts in paise)
CustomerRow1 ==
    [customer_id |-> 1, phone_number |-> Phone(1),
     monthly_salary |-> 5000000, approved_limit |-> 5000000, current_debt |-> 0]

\* the customer spreadsheets that are ingested
CustomerFiles == {<<CustomerRow1>>}

\* rows of the loan spreadsheet; a missing monthly payment is None.
\* Dates: 652 = 2026-10-15, 744 = 2027-01-15, 1078 = 2027-12-15,
\*        384 = 2026-01-20, 708 = 2026-12-10
LoanRow1 ==
    [customer_id |-> 1, loan_id |-> 1, loan_amount |-> 9799998, tenure |-> 14,
     interest_rate |-> 1200, monthly_payment |-> Some(753300),
     emis_paid_on_time |-> 1, start_date |-> 652, end_date |-> 1078]

LoanRow2 ==
    [customer_id |-> 1, loan_id |-> 2, loan_amount |-> 100001, tenure |-> 3,
     interest_rate |-> 1200, monthly_payment |-> None,
     emis_paid_on_time |-> 1, start_date |-> 652, end_date |-> 744]

LoanRow3 == [LoanRow2 EXCEPT !.loan_id = 3]

LoanRow4 ==
    [customer_id |-> 2, loan_id |-> 4, loan_amount |-> 10000000, tenure |-> 12,
     interest_rate |-> 1000, monthly_payment |-> Some(879200),
     emis_paid_on_time |-> 0, start_date |-> 384, end_date |-> 708]

\* the loan spreadsheets that are ingested
LoanFiles == {<<LoanRow1, LoanRow2, LoanRow3, LoanRow4>>}

Request(customer_id, loan_amount, interest_rate, tenure) ==
    [customer_id |-> customer_id, loan_amount |-> loan_amount,
     interest_rate |-> interest_rate, tenure |-> tenure]

\* check-eligibility request bodies that pass field validation
CheckRequests ==
    {Request(1, 3000000, 1200, 3),
     Request(1, 3000000, 1600, 3),
     Request(2, 3000000, 1600, 3),
     Request(2, 3000000, 1800, 3),
     Request(1, 3000000, 0, 3),
     Request(1, 200000000, 1200, 3),
     Request(1, 3000000, 1200, 0),
     Request(MaxCustomers + 1, 3000000, 1200, 3)}

\* create-loan request bodies that pass field validation
CreateRequests ==
    {Request(1, 3000000, 1200, 3),
     Request(2, 200000000, 1200, 3),
     Request(1, 3000000, 1200, 0),
     Request(MaxCustomers + 1, 3000000, 1200, 3)}

\* the days on which the system is observed: 2026-11-01, 2027-01-10
TodayDates == <<669, 739>>

-----------------------------------------------------------------------------
(* datetime.date: year and month of a day number, 2025-01-01 = day 0 *)

DaysBeforeMonth == <<0, 31, 59, 90, 120, 151, 181, 212, 243, 273, 304, 334>>

YearOf(d) == 2025 + (d \div 365)

\* the month of each day of a 365-day year
MonthOfDay ==
    [doy \in 0..364 |->
        CHOOSE m \in 1..12 :
            /\ DaysBeforeMonth[m] <= doy
            /\ (m = 12 \/ doy < DaysBeforeMonth[m + 1])]

MonthOf(d) == MonthOfDay[d % 365]

-----------------------------------------------------------------------------
(* IEEE-754 doubles holding rupee amounts.                                  *)
(* A double x near c paise is the pair [c, e]:                              *)
(*      x = c / 100 + e / (25 * 2^44)  =  (c * 2^42 + e) / (25 * 2^44).     *)
(* In the binade [2^k, 2^(k+1)) the doubles are the multiples of            *)
(* 2^(k-52) = m * 2^-44 with m = 2^(k-8), so [c, e] is a double iff         *)
(* 25 * m divides c * 2^42 + e.  All amounts are >= 256 rupees (k >= 8).    *)

\* the powers of two that fit a machine integer
Pow2 == [k \in 0..30 |-> Power(2, k)]

\* the k with 2^k <= c/100 + (tiny s) < 2^(k+1)
Binade(c, s) ==
    LET k == CHOOSE i \in 8..23 : 100 * Pow2[i] <= c /\ c < 100 * Pow2[i + 1]
    IN IF c = 100 * Pow2[k] /\ s < 0 THEN k - 1 ELSE k

Pow2Mod25(n) == Pow2[n % 20] % 25

\* the double nearest to the real (c * 2^42 + s) / (25 * 2^44), ties to even:
\* its error term e, for c >= 0
FloatRoundPos(c, s) ==
    IF c = 0 THEN 0
    ELSE LET j == Binade(c, s) - 8
             m == Pow2[j]
             R == (m * (((c % 25) * Pow2Mod25(42 - j)) % 25) + s) % (25 * m)
             Q == (2 * m * (((c % 25) * Pow2Mod25(41 - j)) % 25) + s) % (50 * m)
             down == s - R
             up == s + 25 * m - R
         IN IF 2 * R < 25 * m THEN down
            ELSE IF 2 * R > 25 * m THEN up
            ELSE IF Q < 25 * m THEN down ELSE up

\* rounding is symmetric in the sign
FloatRound(c, s) ==
    LET sg == IF c < 0 THEN -1 ELSE 1
    IN sg * FloatRoundPos(sg * c, sg * s)

\* float(Decimal) of an amount of c paise
FloatOf(c) == [c |-> c, e |-> FloatRound(c, 0)]

\* x + y in double arithmetic
FloatAdd(x, y) == [c |-> x.c + y.c, e |-> FloatRound(x.c + y.c, x.e + y.e)]

\* sum(float(a) for a in amounts): left to right, starting from the int 0
RECURSIVE FloatSum(_)
FloatSum(amounts) ==
    IF Len(amounts) = 0 THEN [c |-> 0, e |-> 0]
    ELSE LET n == Len(amounts)
         IN FloatAdd(FloatSum(SubSeq(amounts, 1, n - 1)), FloatOf(amounts[n]))

RECURSIVE PredBinade(_, _)
PredBinade(q, b) == IF Pow2[b + 1] < q THEN PredBinade(q, b + 1) ELSE b

\* int(x / 100000) for a double x >= 0: the quotient is rounded to a double
\* and truncated.  Only a sum just below a whole number of lakhs can lose a
\* unit: the quotient q - delta rounds to q iff delta <= half the spacing of
\* the doubles below q.
IntLakhsPos(x) ==
    LET q == x.c \div 10000000
    IN IF x.c % 10000000 # 0 \/ x.e >= 0 THEN q
       ELSE IF Abs(x.e) * 512 <= 2500000 * Pow2[PredBinade(q, 0)] THEN q
       ELSE q - 1

\* int() truncates towards zero: a negative sum gives a negative count
IntLakhs(x) ==
    LET sg == IF x.c < 0 THEN -1 ELSE 1
    IN sg * IntLakhsPos([c |-> sg * x.c, e |-> sg * x.e])

-----------------------------------------------------------------------------
(* Real amounts: the value q + r/d paise, 0 <= r < d *)

Exact(c) == [q |-> c, r |-> 0, d |-> 1]

\* Decimal.quantize(Decimal("0.01")) / round(x, 2) / storing into a
\* DecimalField(decimal_places=2): the nearest paisa, ties to even
RoundHalfEven(v) ==
    IF 2 * v.r < v.d THEN v.q
    ELSE IF 2 * v.r > v.d THEN v.q + 1
    ELSE IF v.q % 2 = 0 THEN v.q ELSE v.q + 1

\* ceil(2 * v)
Ceil2(v) == 2 * v.q + (IF v.r = 0 THEN 0 ELSE IF 2 * v.r <= v.d THEN 1 ELSE 2)

\* base + v > limit / 2   (base, limit whole paise)
ExceedsHalf(base, v, limit) == Ceil2(v) > limit - 2 * base

\* The EMI expression shared by evaluate_loan, evaluate_loan_eligibility,
\* Loan.calculate_emi and load_loans_task, before any rounding:
\*    r = rate / (12 * 100)
\*    r = 0:  principal / n
\*    else :  principal * r * (1 + r)^n / ((1 + r)^n - 1)
\* With r = a/b in lowest terms this is principal * X / Y where
\*    X = a * (a+b)^n,  Y = b * ((a+b)^n - b^n).            Requires n >= 1.
EmiValue(principal, rate, n) ==
    IF rate = 0
    THEN [q |-> principal \div n, r |-> principal % n, d |-> n]
    ELSE LET g == Gcd(rate, 120000)
             a == rate \div g
             b == 120000 \div g
             X0 == a * Power(a + b, n)
             Y0 == b * (Power(a + b, n) - Power(b, n))
             h == Gcd(X0, Y0)
             m == MulDivRem(principal, X0 \div h, Y0 \div h)
         IN [q |-> m.q, r |-> m.r, d |-> Y0 \div h]

\* the EMI expression on the inputs of the model, evaluated once
EmiInputs ==
    {<<q.loan_amount, q.interest_rate, q.tenure>> :
        q \in {x \in CheckRequests \cup CreateRequests : x.tenure # 0}}
    \cup {<<LoanRow2.loan_amount, LoanRow2.interest_rate, LoanRow2.tenure>>}

EmiTable == [i \in EmiInputs |-> EmiValue(i[1], i[2], i[3])]

EmiFormula(principal, rate, n) ==
    IF <<principal, rate, n>> \in EmiInputs
    THEN EmiTable[<<principal, rate, n>>]
    ELSE EmiValue(principal, rate, n)

-----------------------------------------------------------------------------
(* models.py: Loan and Customer *)

\* Loan.calculate_emi with explicit fields
calculate_emi(loan_amount, interest_rate, tenure) ==
    IF interest_rate = 0
    THEN EmiFormula(loan_amount, interest_rate, tenure)
    ELSE Exact(RoundHalfEven(EmiFormula(loan_amount, interest_rate, tenure)))

\* the months left by the calendar alone, without the floor at 0
repayments_left_on_Unfloored(loan, day) ==
    IF day >= loan.end_date THEN 0
    ELSE LET months_passed ==
                 (YearOf(day) - YearOf(loan.start_date)) * 12
                     + (MonthOf(day) - MonthOf(loan.start_date))
         IN IF months_passed < 0 THEN loan.tenure
            ELSE loan.tenure - months_passed

\* Loan.repayments_left on the day `day`
repayments_left_on(loan, day) ==
    IF day >= loan.end_date THEN 0
    ELSE LET months_passed ==
                 (YearOf(day) - YearOf(loan.start_date)) * 12
                     + (MonthOf(day) - MonthOf(loan.start_date))
         IN IF months_passed < 0 THEN loan.tenure
            ELSE Max(0, loan.tenure - months_passed)

repayments_left(loan) == repayments_left_on(loan, today)

is_active(loan) == repayments_left(loan) > 0

\* customer.loans.all()
LoansOf(cid) == SelectSeq(loans, LAMBDA l : l.customer = cid)

RECURSIVE SumLoanAmount(_)
SumLoanAmount(ls) ==
    IF Len(ls) = 0 THEN 0 ELSE Head(ls).loan_amount + SumLoanAmount(Tail(ls))

RECURSIVE SumMonthlyRepayment(_)
SumMonthlyRepayment(ls) ==
    IF Len(ls) = 0 THEN 0
    ELSE Head(ls).monthly_repayment + SumMonthlyRepayment(Tail(ls))

\* Customer.get_current_loans_sum
get_current_loans_sum(cid) ==
    SumLoanAmount(SelectSeq(LoansOf(cid), is_active))

\* Customer.get_current_emis_sum
get_current_emis_sum(cid) ==
    SumMonthlyRepayment(SelectSeq(LoansOf(cid), is_active))

\* int(x / u): the quotient cut off
RoundDiv_Truncating(x, u) == x \div u

\* round(x / u) for integers x >= 0, u > 0: Python 3 round, ties to even
RoundDiv(x, u) ==
    LET q == x \div u
        r == x % u
    IN IF 2 * r < u THEN q
       ELSE IF 2 * r > u THEN q + 1
       ELSE IF q % 2 = 0 THEN q ELSE q + 1

\* Customer.save: the approved_limit that is stored (paise)
SavedApprovedLimit(monthly_salary, approved_limit) ==
    IF approved_limit = 0
    THEN RoundDiv(36 * monthly_salary, 10000000) * 10000000
    ELSE approved_limit

CustomerExists(cid) == cid \in 1..Len(customers)

-----------------------------------------------------------------------------
(* services/eligibility_service.py *)

Amounts(ls) == [i \in 1..Len(ls) |-> ls[i].loan_amount]

\* calculate_credit_score on the loans ls of a customer, run on the day `day`
CreditScoreOn(ls, day) ==
    LET n == Len(ls)
    IN IF n = 0 THEN 50
       ELSE LET on_time == Cardinality(SelectIdx(ls, LAMBDA l : l.emis_paid_on_time > 0))
                s1 == (on_time * 30) \div n
                s2 == s1 + Min(n * 5, 20)
                current_year == YearOf(day)
                loans_this_year ==
                    SelectIdx(ls, LAMBDA l : YearOf(l.start_date) = current_year)
                s3 == s2 + Min(Cardinality(loans_this_year) * 5, 20)
                total_volume == FloatSum(Amounts(ls))
                s4 == s3 + Min(IntLakhs(total_volume), 20)
            IN Min(s4, 100)

calculate_credit_score(cid) == CreditScoreOn(LoansOf(cid), today)

\* evaluate_loan, the over-limit override: the score the decision uses
OverLimitScore_Ignored(cid, score) == score

OverLimitScore(cid, score) ==
    IF get_current_loans_sum(cid) > customers[cid].approved_limit THEN 0 ELSE score

\* evaluate_loan, the affordability test: (current_emis_sum + emi) > 0.5 * salary
AffordabilityExceeded_RequestedOnly(cid, emi) ==
    ExceedsHalf(0, emi, customers[cid].monthly_salary)

AffordabilityExceeded(cid, emi) ==
    ExceedsHalf(get_current_emis_sum(cid), emi, customers[cid].monthly_salary)

\* evaluate_loan, the score tiers: approval and corrected rate
TierDecision_Inclusive(credit_score, interest_rate) ==
    IF credit_score >= 50
    THEN [approved |-> TRUE, corrected_interest_rate |-> Some(interest_rate)]
    ELSE IF 30 <= credit_score /\ credit_score < 50
    THEN [approved |-> TRUE,
          corrected_interest_rate |->
              IF interest_rate <= 1200 THEN Some(1210) ELSE Some(interest_rate)]
    ELSE IF 10 <= credit_score /\ credit_score < 30
    THEN [approved |-> TRUE,
          corrected_interest_rate |->
              IF interest_rate <= 1600 THEN Some(1610) ELSE Some(interest_rate)]
    ELSE [approved |-> FALSE, corrected_interest_rate |-> Some(interest_rate)]

TierDecision(credit_score, interest_rate) ==
    IF credit_score > 50
    THEN [approved |-> TRUE, corrected_interest_rate |-> Some(interest_rate)]
    ELSE IF 30 < credit_score /\ credit_score <= 50
    THEN [approved |-> TRUE,
          corrected_interest_rate |->
              IF interest_rate <= 1200 THEN Some(1210) ELSE Some(interest_rate)]
    ELSE IF 10 < credit_score /\ credit_score <= 30
    THEN [approved |-> TRUE,
          corrected_interest_rate |->
              IF interest_rate <= 1600 THEN Some(1610) ELSE Some(interest_rate)]
    ELSE [approved |-> FALSE, corrected_interest_rate |-> Some(interest_rate)]

\* evaluate_loan: the returned tuple.  Requires tenure # 0 (else ZeroDivisionError)
evaluate_loan(cid, loan_amount, interest_rate, tenure) ==
    LET credit_score == OverLimitScore(cid, calculate_credit_score(cid))
        raw == EmiFormula(loan_amount, interest_rate, tenure)
        emi == IF interest_rate = 0 THEN raw ELSE Exact(RoundHalfEven(raw))
        tier == TierDecision(credit_score, interest_rate)
    IN IF AffordabilityExceeded(cid, emi)
       THEN [approved |-> FALSE, credit_score |-> credit_score,
             interest_rate |-> interest_rate,
             corrected_interest_rate |-> None, emi |-> emi]
       ELSE [approved |-> tier.approved, credit_score |-> credit_score,
             interest_rate |-> interest_rate,
             corrected_interest_rate |-> tier.corrected_interest_rate,
             emi |-> emi]

-----------------------------------------------------------------------------
(* Responses *)

Response(op, status, request, decision, body) ==
    [op |-> op, status |-> status, request |-> request,
     decision |-> decision, body |-> body]

NoBody == [error |-> "none"]

-----------------------------------------------------------------------------
(* views.py: register *)

\* a register body that takes any monthly income
RegisterValid_AnyIncome(monthly_income, phone_number) ==
    /\ phone_number.digits = 10
    /\ \A i \in 1..Len(customers) : customers[i].phone_number # phone_number

\* CustomerRegisterSerializer: validate_monthly_income, validate_phone_number
RegisterValid(monthly_income, phone_number) ==
    /\ monthly_income > 0
    /\ phone_number.digits = 10
    /\ \A i \in 1..Len(customers) : customers[i].phone_number # phone_number

\* CustomerRegisterSerializer.is_valid: a request body is the record of the
\* fields it carries; every declared field is required
RegisterRequestValid(request) ==
    /\ {"monthly_income", "phone_number"} \subseteq DOMAIN request
    /\ RegisterValid(request.monthly_income, request.phone_number)

\* CustomerRegisterSerializer.create: the stored row
RegisteredCustomer(monthly_income, phone_number) ==
    LET approved_limit == RoundDiv(36 * monthly_income, 100000) * 100000
    IN [customer_id |-> Len(customers) + 1,
        phone_number |-> phone_number,
        monthly_salary |-> 100 * monthly_income,
        approved_limit |->
            SavedApprovedLimit(100 * monthly_income, 100 * approved_limit),
        current_debt |-> 0]

register(request) ==
    /\ RegisterRequestValid(request) => Len(customers) < MaxCustomers
    /\ IF RegisterRequestValid(request)
       THEN /\ customers' = Append(customers,
                   RegisteredCustomer(request.monthly_income, request.phone_number))
            /\ resp' = Response("register", 201, request, None,
                                [customer_id |-> Len(customers) + 1])
       ELSE /\ customers' = customers
            /\ resp' = Response("register", 400, request, None, NoBody)
    /\ UNCHANGED <<loans, credit_scores, applications, today>>

-----------------------------------------------------------------------------
(* views.py: check_eligibility *)

\* LoanEligibilityRequestSerializer / CreateLoanRequestSerializer .is_valid:
\* the four fields are required; interest_rate has max_digits=5 with two
\* decimal places.  No field has a minimum.
LoanRequestValid(request) ==
    /\ {"customer_id", "loan_amount", "interest_rate", "tenure"} \subseteq DOMAIN request
    /\ Abs(request.interest_rate) < 100000

\* the response of check_eligibility
CheckEligibilityResponse(request) ==
    IF ~LoanRequestValid(request)
    THEN Response("check_eligibility", 400, request, None, NoBody)
    ELSE IF ~CustomerExists(request.customer_id)
    THEN Response("check_eligibility", 404, request, None,
                  [error |-> "Customer not found"])
    ELSE IF request.tenure = 0
    THEN \* ZeroDivisionError in evaluate_loan: unhandled, a server error
         Response("check_eligibility", 500, request, None, NoBody)
    ELSE LET d == evaluate_loan(request.customer_id, request.loan_amount,
                                request.interest_rate, request.tenure)
         IN Response("check_eligibility", 200, request, Some(d),
                 [customer_id |-> request.customer_id,
                  approval |-> d.approved,
                  interest_rate |-> d.interest_rate,
                  corrected_interest_rate |->
                      IF d.corrected_interest_rate # None
                         /\ d.corrected_interest_rate[1] # 0
                      THEN d.corrected_interest_rate[1]
                      ELSE d.interest_rate,
                  tenure |-> request.tenure,
                  monthly_installment |-> d.emi])

\* a check that keeps a record of the request it answered
check_eligibility_Recording(request) ==
    /\ \E r \in {CheckEligibilityResponse(request)} :
          /\ resp' = r
          /\ applications' =
                 IF r.status = 200
                 THEN Append(applications,
                          [customer |-> request.customer_id, status |-> "PENDING"])
                 ELSE applications
    /\ UNCHANGED <<customers, loans, credit_scores, today>>

check_eligibility(request) ==
    /\ resp' = CheckEligibilityResponse(request)
    /\ UNCHANGED <<customers, loans, credit_scores, applications, today>>

-----------------------------------------------------------------------------
(* views.py: create_loan *)

\* customer.credit_scores.filter(is_current=True)
CurrentScoreRows(cid) ==
    SelectSeq(credit_scores, LAMBDA c : c.customer = cid /\ c.is_current)

\* the gates with the score threshold read before the approved limit
evaluate_loan_eligibility_ScoreFirst(cid, loan_amount, interest_rate, tenure) ==
    LET customer == customers[cid]
        cur == CurrentScoreRows(cid)
        credit_score == IF Len(cur) > 0 THEN cur[1].score ELSE 50
        emi == EmiFormula(loan_amount, interest_rate, tenure)
    IN IF ExceedsHalf(0, emi, customer.monthly_salary)
       THEN [approved |-> FALSE, message |-> "EMI exceeds 50% of monthly income",
             emi |-> emi, credit_score |-> credit_score]
       ELSE IF credit_score < 50
       THEN [approved |-> FALSE, message |-> "Credit score too low",
             emi |-> emi, credit_score |-> credit_score]
       ELSE IF get_current_loans_sum(cid) + loan_amount > customer.approved_limit
       THEN [approved |-> FALSE, message |-> "Exceeds approved credit limit",
             emi |-> emi, credit_score |-> credit_score]
       ELSE [approved |-> TRUE, message |-> "Loan approved",
             emi |-> Exact(RoundHalfEven(emi)), credit_score |-> credit_score]

\* evaluate_loan_eligibility: the returned tuple; emi is the Decimal returned.
\* Requires tenure # 0 (else ZeroDivisionError)
evaluate_loan_eligibility(cid, loan_amount, interest_rate, tenure) ==
    LET customer == customers[cid]
        cur == CurrentScoreRows(cid)
        credit_score == IF Len(cur) > 0 THEN cur[1].score ELSE 50
        emi == EmiFormula(loan_amount, interest_rate, tenure)
    IN IF ExceedsHalf(0, emi, customer.monthly_salary)
       THEN [approved |-> FALSE, message |-> "EMI exceeds 50% of monthly income",
             emi |-> emi, credit_score |-> credit_score]
       ELSE IF get_current_loans_sum(cid) + loan_amount > customer.approved_limit
       THEN [approved |-> FALSE, message |-> "Exceeds approved credit limit",
             emi |-> emi, credit_score |-> credit_score]
       ELSE IF credit_score < 50
       THEN [approved |-> FALSE, message |-> "Credit score too low",
             emi |-> emi, credit_score |-> credit_score]
       ELSE [approved |-> TRUE, message |-> "Loan approved",
             emi |-> Exact(RoundHalfEven(emi)), credit_score |-> credit_score]

\* the next value of the loans AutoField
NextLoanId ==
    IF Len(loans) = 0 THEN 1
    ELSE 1 + (CHOOSE m \in {loans[i].loan_id : i \in 1..Len(loans)} :
                  \A i \in 1..Len(loans) : loans[i].loan_id <= m)

\* Loan.save: a falsy monthly_repayment is replaced by calculate_emi()
LoanSaved(row) ==
    IF row.monthly_repayment = 0
    THEN [row EXCEPT !.monthly_repayment =
              RoundHalfEven(calculate_emi(row.loan_amount, row.interest_rate, row.tenure))]
    ELSE row

\* the HTTP status create_loan answers with once the decision is recorded
CreateLoanStatus(approved) == 200

\* LoanApplication.objects.create(...) in create_loan
NewApplication(request, d) ==
    [application_id |-> Len(applications) + 1,
     customer |-> request.customer_id,
     loan |-> None,
     requested_amount |-> request.loan_amount,
     requested_interest_rate |-> request.interest_rate,
     requested_tenure |-> request.tenure,
     status |-> IF d.approved THEN "APPROVED" ELSE "REJECTED",
     approved_amount |-> None,
     approved_interest_rate |-> None,
     corrected_interest_rate |-> None,
     monthly_installment |-> RoundHalfEven(d.emi),
     rejection_reason |-> None,
     rejection_message |-> IF d.approved THEN None ELSE Some(d.message),
     credit_score_at_application |-> d.credit_score]

\* Loan.objects.create(...) in create_loan
NewLoan(request, d) ==
    LoanSaved([loan_id |-> NextLoanId,
               customer |-> request.customer_id,
               loan_amount |-> request.loan_amount,
               tenure |-> request.tenure,
               interest_rate |-> request.interest_rate,
               monthly_repayment |-> RoundHalfEven(d.emi),
               emis_paid_on_time |-> 0,
               start_date |-> today,
               end_date |-> today + 30 * request.tenure])

\* CreateLoanResponseSerializer: monthly_installment is a DecimalField with
\* decimal_places=2, the float(emi) it is given is quantized to a whole paisa
ResponseDecimal(v) == Exact(RoundHalfEven(v))

\* create_loan after the decision d: the application, the loan of an approved
\* request, and the response
CreateLoanStored(request, d) ==
    LET application == NewApplication(request, d)
        loan == NewLoan(request, d)
    IN IF d.approved
       THEN [loans |-> Append(loans, loan),
             applications |-> Append(applications,
                 [application EXCEPT
                      !.loan = Some(loan.loan_id),
                      !.approved_amount = Some(request.loan_amount),
                      !.approved_interest_rate = Some(request.interest_rate)]),
             resp |-> Response("create_loan", CreateLoanStatus(TRUE), request,
                          Some(d),
                          [loan_id |-> Some(loan.loan_id),
                           customer_id |-> request.customer_id,
                           loan_approved |-> TRUE,
                           message |-> d.message,
                           monthly_installment |-> ResponseDecimal(d.emi)])]
       ELSE [loans |-> loans,
             applications |-> Append(applications, application),
             resp |-> Response("create_loan", CreateLoanStatus(FALSE), request,
                          Some(d),
                          [loan_id |-> None,
                           customer_id |-> request.customer_id,
                           loan_approved |-> FALSE,
                           message |-> d.message,
                           monthly_installment |-> ResponseDecimal(d.emi)])]

\* create_loan: the tables and the response it leaves
CreateLoanOutcome(request) ==
    IF ~LoanRequestValid(request)
    THEN [loans |-> loans, applications |-> applications,
          resp |-> Response("create_loan", 400, request, None, NoBody)]
    ELSE IF ~CustomerExists(request.customer_id)
    THEN [loans |-> loans, applications |-> applications,
          resp |-> Response("create_loan", 404, request, None,
                            [error |-> "Customer not found"])]
    ELSE IF request.tenure = 0
    THEN \* ZeroDivisionError in evaluate_loan_eligibility, before anything is stored
         [loans |-> loans, applications |-> applications,
          resp |-> Response("create_loan", 500, request, None, NoBody)]
    ELSE CreateLoanStored(request,
             evaluate_loan_eligibility(request.customer_id, request.loan_amount,
                                       request.interest_rate, request.tenure))
\* a create-loan that books the approved amount against the approved limit
create_loan_ConsumingLimit(request) ==
    /\ \E out \in {CreateLoanOutcome(request)} :
          /\ Len(out.applications) <= MaxApplications
          /\ Len(out.loans) <= MaxLoans
          /\ loans' = out.loans
          /\ applications' = out.applications
          /\ resp' = out.resp
          /\ customers' =
                 IF Len(out.loans) > Len(loans)
                 THEN [customers EXCEPT ![request.customer_id].approved_limit =
                           @ - request.loan_amount]
                 ELSE customers
    /\ UNCHANGED <<credit_scores, today>>

create_loan(request) ==
    /\ \E out \in {CreateLoanOutcome(request)} :
          /\ Len(out.applications) <= MaxApplications
          /\ Len(out.loans) <= MaxLoans
          /\ loans' = out.loans
          /\ applications' = out.applications
          /\ resp' = out.resp
    /\ UNCHANGED <<customers, credit_scores, today>>

-----------------------------------------------------------------------------
(* task.py: load_customers_task over one spreadsheet *)

\* the loop body for `row` on the table cs
LoadCustomersRow(cs, row) ==
    IF \E i \in 1..Len(cs) : cs[i].phone_number = row.phone_number
    THEN cs
    ELSE Append(cs, [customer_id |-> Len(cs) + 1,
                     phone_number |-> row.phone_number,
                     monthly_salary |-> row.monthly_salary,
                     approved_limit |->
                         SavedApprovedLimit(row.monthly_salary, row.approved_limit),
                     current_debt |-> row.current_debt])

RECURSIVE LoadCustomersRows(_, _)
LoadCustomersRows(file, n) ==
    IF n = 0 THEN customers
    ELSE LoadCustomersRow(LoadCustomersRows(file, n - 1), file[n])

load_customers_task(file) ==
    /\ \E cs \in {LoadCustomersRows(file, Len(file))} :
          /\ Len(cs) <= MaxCustomers
          /\ customers' = cs
          /\ resp' = Response("load_customers", "success",
                              [rows |-> Len(file)], None,
                              [created |-> Len(cs) - Len(customers)])
    /\ UNCHANGED <<loans, credit_scores, applications, today>>

-----------------------------------------------------------------------------
(* task.py: load_loans_task (and the management command load_loans)         *)
(* over one spreadsheet                                                     *)

\* the loop body for `row` on the tables t.customers, t.loans
LoadLoansRow(t, row) ==
    IF ~(row.customer_id \in 1..Len(t.customers))
    THEN t      \* Customer.DoesNotExist: the row is skipped
    ELSE IF \E i \in 1..Len(t.loans) : t.loans[i].loan_id = row.loan_id
    THEN t      \* IntegrityError on the primary key, caught by the row's except
    ELSE LET monthly_payment ==
                 IF row.monthly_payment # None /\ row.monthly_payment[1] # 0
                 THEN row.monthly_payment[1]
                 ELSE RoundHalfEven(calculate_emi(row.loan_amount,
                                                  row.interest_rate, row.tenure))
             loan == LoanSaved(
                 [loan_id |-> row.loan_id,
                  customer |-> row.customer_id,
                  loan_amount |-> row.loan_amount,
                  tenure |-> row.tenure,
                  interest_rate |-> row.interest_rate,
                  monthly_repayment |-> monthly_payment,
                  emis_paid_on_time |-> row.emis_paid_on_time,
                  start_date |-> row.start_date,
                  end_date |-> row.end_date])
             after == Append(t.loans, loan)
         IN [customers |->
                 [t.customers EXCEPT ![row.customer_id].current_debt =
                      SumLoanAmount(SelectSeq(after,
                          LAMBDA l : l.customer = row.customer_id))],
             loans |-> after]

RECURSIVE LoadLoansRows(_, _)
LoadLoansRows(file, n) ==
    IF n = 0 THEN [customers |-> customers, loans |-> loans]
    ELSE LoadLoansRow(LoadLoansRows(file, n - 1), file[n])

load_loans_task(file) ==
    /\ \E t \in {LoadLoansRows(file, Len(file))} :
          /\ Len(t.loans) <= MaxLoans
          /\ customers' = t.customers
          /\ loans' = t.loans
          /\ resp' = Response("load_loans", "success",
                              [rows |-> Len(file)], None,
                              [loans_created |-> Len(t.loans) - Len(loans)])
    /\ UNCHANGED <<credit_scores, applications, today>>

-----------------------------------------------------------------------------
(* task.py: calculate_credit_scores_task, all customers in one run;         *)
(* models.py: CreditScore.save                                              *)

\* CreditScore.save of the record at index k of cs: the other current records
\* of its customer are demoted first
CreditScoreSaved(cs, k) ==
    [i \in 1..Len(cs) |->
        IF i # k /\ cs[i].customer = cs[k].customer /\ cs[i].is_current /\ cs[k].is_current
        THEN [cs[i] EXCEPT !.is_current = FALSE]
        ELSE cs[i]]

\* the loop body for one customer, on the table cs
RefreshOne(cs, cid) ==
    LET score == calculate_credit_score(cid)
        current == SelectIdx(cs, LAMBDA c : c.customer = cid /\ c.is_current)
    IN IF current = {}
       THEN \* get_or_create creates the record
            CreditScoreSaved(
                Append(cs, [customer |-> cid, score |-> score, is_current |-> TRUE]),
                Len(cs) + 1)
       ELSE IF Cardinality(current) = 1
       THEN \* the existing record is updated and saved
            LET k == CHOOSE i \in current : TRUE
            IN CreditScoreSaved([cs EXCEPT ![k].score = score], k)
       ELSE \* MultipleObjectsReturned, logged and skipped
            cs

RECURSIVE RefreshUpTo(_)
RefreshUpTo(n) ==
    IF n = 0 THEN credit_scores ELSE RefreshOne(RefreshUpTo(n - 1), n)

\* a refresh that also brings the score kept on the stored applications up to
\* date
calculate_credit_scores_task_Rescoring ==
    /\ \E cs \in {RefreshUpTo(Len(customers))} :
          /\ Len(cs) <= MaxScoreRows
          /\ credit_scores' = cs
          /\ applications' =
                 [i \in 1..Len(applications) |->
                     [applications[i] EXCEPT !.credit_score_at_application =
                          calculate_credit_score(applications[i].customer)]]
    /\ resp' = Response("calculate_credit_scores", "done",
                        [updated |-> Len(customers)], None, NoBody)
    /\ UNCHANGED <<customers, loans, today>>

calculate_credit_scores_task ==
    /\ \E cs \in {RefreshUpTo(Len(customers))} :
          /\ Len(cs) <= MaxScoreRows
          /\ credit_scores' = cs
    /\ resp' = Response("calculate_credit_scores", "done",
                        [updated |-> Len(customers)], None, NoBody)
    /\ UNCHANGED <<customers, loans, applications, today>>

-----------------------------------------------------------------------------
(* Credit-score writers, statement by statement.  Each statement is one     *)
(* autocommitted SQL statement; the table carries the unique constraint     *)
(* unique_together = [customer, is_current].                                *)

ScoreWriters == 1..MaxWriters

\* the scores written directly: CreditScore.objects.create(customer, score=80),
\* and 30
DirectScores == {30, 80}

\* a process that is not between two statements
Idle == [pc |-> "idle", customer |-> 0, score |-> 0, pk |-> 0]

\* the request workers that serve the views
RequestWorkers == 1..MaxWriters

\* a worker that is not inside a request
NoRequest == [pc |-> "idle", request |-> [none |-> TRUE]]

\* the ingestion tasks that run at the same time
LoanTasks == 1..MaxWriters

\* a task that is not inside a row
NoRow == [pc |-> "idle", customer |-> 0, debt |-> 0]

NoneInFlight ==
    [save |-> [w \in ScoreWriters |-> Idle],
     refresh |-> Idle,
     register |-> [w \in RequestWorkers |-> NoRequest],
     ingest |-> [t \in LoanTasks |-> NoRow],
     create |-> [w \in RequestWorkers |-> NoRequest]]

\* the unique constraint on (customer, is_current)
UniqueTogether_Unchecked(cs) == TRUE

UniqueTogether(cs) ==
    \A i, j \in 1..Len(cs) :
        (i # j /\ cs[i].customer = cs[j].customer)
            => cs[i].is_current # cs[j].is_current

\* CreditScore.objects.filter(customer=cid, is_current=True)
\*     .exclude(pk=pk).update(is_current=False);  pk = 0 for an unsaved object
Demoted(cs, cid, pk) ==
    [k \in 1..Len(cs) |->
        IF cs[k].customer = cid /\ cs[k].is_current /\ k # pk
        THEN [cs[k] EXCEPT !.is_current = FALSE]
        ELSE cs[k]]

CurrentPks(cs, cid) ==
    {k \in 1..Len(cs) : cs[k].customer = cid /\ cs[k].is_current}

ScoreResponse(op, status, writer, cid, score) ==
    Response(op, status, [writer |-> writer, customer_id |-> cid, score |-> score],
             None, NoBody)

\* CreditScore(customer=cid, score=score).save(), first statement: the UPDATE
\* that demotes the current rows.  An IntegrityError ends the save.
SaveDemote(w, cid, score) ==
    /\ in_flight.save[w].pc = "idle"
    /\ CustomerExists(cid)
    /\ \E after \in {Demoted(credit_scores, cid, 0)} :
          IF UniqueTogether(after)
          THEN /\ credit_scores' = after
               /\ in_flight' = [in_flight EXCEPT !.save[w] =
                      [pc |-> "insert", customer |-> cid, score |-> score, pk |-> 0]]
               /\ resp' = ScoreResponse("save_demote", "done", w, cid, score)
          ELSE /\ credit_scores' = credit_scores
               /\ in_flight' = in_flight
               /\ resp' = ScoreResponse("save_demote", "IntegrityError", w, cid, score)
    /\ UNCHANGED <<customers, loans, applications, today>>

\* second statement: super().save(), the INSERT of the new current row
SaveInsert(w) ==
    /\ in_flight.save[w].pc = "insert"
    /\ \E me \in {in_flight.save[w]} :
       \E after \in {Append(credit_scores,
                          [customer |-> me.customer, score |-> me.score,
                           is_current |-> TRUE])} :
          IF UniqueTogether(after)
          THEN /\ Len(after) <= MaxScoreRows
               /\ credit_scores' = after
               /\ resp' = ScoreResponse("save_insert", "done", w, me.customer, me.score)
          ELSE /\ credit_scores' = credit_scores
               /\ resp' = ScoreResponse("save_insert", "IntegrityError", w,
                                        me.customer, me.score)
    /\ in_flight' = [in_flight EXCEPT !.save[w] = Idle]
    /\ UNCHANGED <<customers, loans, applications, today>>

\* calculate_credit_scores_task for customer cid: calculate_credit_score and
\* the SELECT of get_or_create(customer=cid, is_current=True)
RefreshGet(cid) ==
    /\ in_flight.refresh.pc = "idle"
    /\ CustomerExists(cid)
    /\ \E score \in {calculate_credit_score(cid)} :
       \E cur \in {CurrentPks(credit_scores, cid)} :
          /\ in_flight' = [in_flight EXCEPT !.refresh =
                 IF cur = {}
                 THEN [pc |-> "create", customer |-> cid, score |-> score, pk |-> 0]
                 ELSE IF Cardinality(cur) = 1
                 THEN [pc |-> "save", customer |-> cid, score |-> score,
                       pk |-> CHOOSE k \in cur : TRUE]
                 ELSE Idle]   \* MultipleObjectsReturned, caught by the task
          /\ resp' = ScoreResponse("refresh_get",
                         IF cur = {} THEN "DoesNotExist"
                         ELSE IF Cardinality(cur) = 1 THEN "found"
                         ELSE "MultipleObjectsReturned",
                         0, cid, score)
    /\ UNCHANGED <<customers, loans, credit_scores, applications, today>>

\* get_or_create, the create in its own transaction: CreditScore.save of the
\* new row (demote, insert).  On IntegrityError the transaction is rolled
\* back and the SELECT is repeated.
RefreshCreate ==
    /\ in_flight.refresh.pc = "create"
    /\ \E me \in {in_flight.refresh} :
       \E after \in {Append(Demoted(credit_scores, me.customer, 0),
                          [customer |-> me.customer, score |-> me.score,
                           is_current |-> TRUE])} :
       \E cur \in {CurrentPks(credit_scores, me.customer)} :
          IF UniqueTogether(after)
          THEN /\ Len(after) <= MaxScoreRows
               /\ credit_scores' = after
               /\ in_flight' = [in_flight EXCEPT !.refresh = Idle]
               /\ resp' = ScoreResponse("refresh_create", "created", 0,
                                        me.customer, me.score)
          ELSE /\ credit_scores' = credit_scores
               /\ in_flight' = [in_flight EXCEPT !.refresh =
                      IF Cardinality(cur) = 1
                      THEN [me EXCEPT !.pc = "save", !.pk = CHOOSE k \in cur : TRUE]
                      ELSE Idle]
               /\ resp' = ScoreResponse("refresh_create", "IntegrityError", 0,
                                        me.customer, me.score)
    /\ UNCHANGED <<customers, loans, applications, today>>

\* credit_score.score = score; credit_score.save(), first statement
RefreshSaveDemote ==
    /\ in_flight.refresh.pc = "save"
    /\ \E me \in {in_flight.refresh} :
       \E after \in {Demoted(credit_scores, me.customer, me.pk)} :
          IF UniqueTogether(after)
          THEN /\ credit_scores' = after
               /\ in_flight' = [in_flight EXCEPT !.refresh.pc = "update"]
               /\ resp' = ScoreResponse("refresh_demote", "done", 0,
                                        me.customer, me.score)
          ELSE /\ credit_scores' = credit_scores
               /\ in_flight' = [in_flight EXCEPT !.refresh = Idle]
               /\ resp' = ScoreResponse("refresh_demote", "IntegrityError", 0,
                                        me.customer, me.score)
    /\ UNCHANGED <<customers, loans, applications, today>>

\* second statement: the UPDATE of the row read by get_or_create, with the
\* new score and the is_current = True it was read with
RefreshSaveUpdate ==
    /\ in_flight.refresh.pc = "update"
    /\ \E me \in {in_flight.refresh} :
       \E after \in {[credit_scores EXCEPT ![me.pk] =
                          [customer |-> me.customer, score |-> me.score,
                           is_current |-> TRUE]]} :
          IF UniqueTogether(after)
          THEN /\ credit_scores' = after
               /\ resp' = ScoreResponse("refresh_update", "done", 0,
                                        me.customer, me.score)
          ELSE /\ credit_scores' = credit_scores
               /\ resp' = ScoreResponse("refresh_update", "IntegrityError", 0,
                                        me.customer, me.score)
    /\ in_flight' = [in_flight EXCEPT !.refresh = Idle]
    /\ UNCHANGED <<customers, loans, applications, today>>

-----------------------------------------------------------------------------
(* register, statement by statement: the serializer's validation reads the  *)
(* customers table, Customer.objects.create inserts later.  The table       *)
(* carries the unique constraint of phone_number (unique=True).             *)

\* a table without the unique constraint
PhoneUnique_Unchecked(cs, phone_number) == TRUE

\* the unique constraint on customers.phone_number, for a row to insert
PhoneUnique(cs, phone_number) ==
    \A i \in 1..Len(cs) : cs[i].phone_number # phone_number

\* serializer.is_valid(): the SELECT of validate_phone_number
RegisterValidate(w, request) ==
    /\ in_flight.register[w].pc = "idle"
    /\ IF RegisterRequestValid(request)
       THEN /\ in_flight' = [in_flight EXCEPT !.register[w] =
                   [pc |-> "insert", request |-> request]]
            /\ resp' = Response("register_validate", "valid", request, None, NoBody)
       ELSE /\ in_flight' = in_flight
            /\ resp' = Response("register_validate", 400, request, None, NoBody)
    /\ UNCHANGED <<customers, loans, credit_scores, applications, today>>

\* serializer.save(): the INSERT.  An IntegrityError is not caught by the
\* view: a server error
RegisterInsert(w) ==
    /\ in_flight.register[w].pc = "insert"
    /\ \E request \in {in_flight.register[w].request} :
          IF PhoneUnique(customers, request.phone_number)
          THEN /\ Len(customers) < MaxCustomers
               /\ customers' = Append(customers,
                      RegisteredCustomer(request.monthly_income, request.phone_number))
               /\ resp' = Response("register_insert", 201, request, None,
                                   [customer_id |-> Len(customers) + 1])
          ELSE /\ customers' = customers
               /\ resp' = Response("register_insert", 500, request, None, NoBody)
    /\ in_flight' = [in_flight EXCEPT !.register[w] = NoRequest]
    /\ UNCHANGED <<loans, credit_scores, applications, today>>

-----------------------------------------------------------------------------
(* load_loans_task on a one-row spreadsheet, statement by statement: the    *)
(* INSERT of the loan, the SELECT behind sum(... customer.loans.all()), the *)
(* UPDATE of customer.save(update_fields=["current_debt"]).                 *)

\* Loan.objects.create(...) of the row; a skipped or refused row ends the task
IngestLoanInsert(t, file) ==
    /\ in_flight.ingest[t].pc = "idle"
    /\ \E out \in {LoadLoansRow([customers |-> customers, loans |-> loans],
                                 file[1])} :
          /\ Len(out.loans) <= MaxLoans
          /\ loans' = out.loans
          /\ in_flight' =
                 IF out.loans = loans THEN in_flight
                 ELSE [in_flight EXCEPT !.ingest[t] =
                          [pc |-> "read", customer |-> file[1].customer_id, debt |-> 0]]
          /\ resp' = Response("ingest_insert",
                              IF out.loans = loans THEN "skipped" ELSE "created",
                              [task |-> t, loan_id |-> file[1].loan_id], None, NoBody)
    /\ UNCHANGED <<customers, credit_scores, applications, today>>

\* customer.current_debt = sum(l.loan_amount for l in customer.loans.all())
IngestDebtRead(t) ==
    /\ in_flight.ingest[t].pc = "read"
    /\ in_flight' = [in_flight EXCEPT !.ingest[t].pc = "write",
                                      !.ingest[t].debt =
                                          SumLoanAmount(LoansOf(in_flight.ingest[t].customer))]
    /\ resp' = Response("ingest_read", "done", [task |-> t], None, NoBody)
    /\ UNCHANGED <<customers, loans, credit_scores, applications, today>>

\* customer.save(update_fields=["current_debt"])
IngestDebtWrite(t) ==
    /\ in_flight.ingest[t].pc = "write"
    /\ \E me \in {in_flight.ingest[t]} :
          /\ customers' = [customers EXCEPT ![me.customer].current_debt = me.debt]
          /\ resp' = Response("ingest_update", "done", [task |-> t], None,
                              [customer |-> me.customer, current_debt |-> me.debt])
    /\ in_flight' = [in_flight EXCEPT !.ingest[t] = NoRow]
    /\ UNCHANGED <<loans, credit_scores, applications, today>>

-----------------------------------------------------------------------------
(* create_loan in two parts: the reads of evaluate_loan_eligibility, then   *)
(* the INSERTs of the application and the loan.  Nothing locks the customer *)
(* between them.                                                            *)

\* up to the decision; a request that is refused before it is answered at once
CreateLoanEvaluate(w, request) ==
    /\ in_flight.create[w].pc = "idle"
    /\ IF /\ LoanRequestValid(request)
          /\ CustomerExists(request.customer_id)
          /\ request.tenure # 0
       THEN \E d \in {evaluate_loan_eligibility(request.customer_id,
                            request.loan_amount, request.interest_rate,
                            request.tenure)} :
               /\ in_flight' = [in_flight EXCEPT !.create[w] =
                      [pc |-> "store", request |-> request, decision |-> d]]
               /\ resp' = Response("create_loan_evaluate", "decided", request,
                                   Some(d), NoBody)
       ELSE /\ in_flight' = in_flight
            /\ resp' = CreateLoanOutcome(request).resp
    /\ UNCHANGED <<customers, loans, credit_scores, applications, today>>

\* from LoanApplication.objects.create to the response
CreateLoanStore(w) ==
    /\ in_flight.create[w].pc = "store"
    /\ \E out \in {CreateLoanStored(in_flight.create[w].request,
                                     in_flight.create[w].decision)} :
          /\ Len(out.applications) <= MaxApplications
          /\ Len(out.loans) <= MaxLoans
          /\ loans' = out.loans
          /\ applications' = out.applications
          /\ resp' = out.resp
    /\ in_flight' = [in_flight EXCEPT !.create[w] = NoRequest]
    /\ UNCHANGED <<customers, credit_scores, today>>

-----------------------------------------------------------------------------
(* The calendar: date.today() moves on between requests *)

NextDay ==
    /\ \E i \in 1..(Len(TodayDates) - 1) :
          /\ today = TodayDates[i]
          /\ today' = TodayDates[i + 1]
    /\ resp' = Response("date", "advanced", [from |-> today], None, NoBody)
    /\ UNCHANGED <<customers, loans, credit_scores, applications, in_flight>>

-----------------------------------------------------------------------------
(* The system *)

Init ==
    /\ customers = <<>>
    /\ loans = <<>>
    /\ credit_scores = <<>>
    /\ applications = <<>>
    /\ today = TodayDates[1]
    /\ resp = Response("none", "none", [none |-> TRUE], None, NoBody)
    /\ in_flight = NoneInFlight

\* a request or a task run from start to end: no writer moves meanwhile
Register ==
    /\ \E request \in RegisterRequests : register(request)
    /\ UNCHANGED in_flight

CheckEligibility ==
    /\ \E request \in CheckRequests : check_eligibility(request)
    /\ UNCHANGED in_flight

CreateLoan ==
    /\ \E request \in CreateRequests : create_loan(request)
    /\ UNCHANGED in_flight

LoadCustomers ==
    /\ \E file \in CustomerFiles : load_customers_task(file)
    /\ UNCHANGED in_flight

LoadLoans ==
    /\ \E file \in LoanFiles : load_loans_task(file)
    /\ UNCHANGED in_flight

RefreshCreditScores ==
    /\ calculate_credit_scores_task
    /\ UNCHANGED in_flight

Next ==
    \/ Register
    \/ CheckEligibility
    \/ CreateLoan
    \/ LoadCustomers
    \/ LoadLoans
    \/ RefreshCreditScores
    \/ NextDay

Spec == Init /\ [][Next]_vars

-----------------------------------------------------------------------------
(* The same handlers on a second set of request bodies.  The request        *)
(* serializers put no bound on loan_amount or interest_rate                 *)
(* (DecimalField without min_value) and none on monthly_income beyond > 0,  *)
(* and the views store what the serializers accept.                         *)

\* register request bodies: 36 * 1000 rounds to an approved limit of 0
LedgerRegisterRequests ==
    {[monthly_income |-> 50000, phone_number |-> Phone(2)],
     [monthly_income |-> 1000, phone_number |-> Phone(3)]}

\* check-eligibility request bodies: 0.10 and 30000.01 rupees over 3 months
LedgerCheckRequests ==
    {Request(1, 10, 0, 3),
     Request(1, 10, 1200, 3),
     Request(1, 3000001, 0, 3)}

\* create-loan request bodies: a negative amount, and a zero rate
LedgerCreateRequests ==
    {Request(1, -250000000, 1200, 3),
     Request(1, 3000001, 0, 3)}

LedgerRegister ==
    /\ \E request \in LedgerRegisterRequests : register(request)
    /\ UNCHANGED in_flight

LedgerCheckEligibility ==
    /\ \E request \in LedgerCheckRequests : check_eligibility(request)
    /\ UNCHANGED in_flight

LedgerCreateLoan ==
    /\ \E request \in LedgerCreateRequests : create_loan(request)
    /\ UNCHANGED in_flight

LedgerNext ==
    \/ LedgerRegister
    \/ LedgerCheckEligibility
    \/ LedgerCreateLoan
    \/ LoadLoans
    \/ RefreshCreditScores

SpecLedger == Init /\ [][LedgerNext]_vars

-----------------------------------------------------------------------------
(* Customer creation on salaries around the rounding boundaries *)

\* register request bodies: 36 * income is 1,800,000; 36,000; 450,000 and
\* 1,350,000 (half-way between two lakhs); 50,004 and 49,968
LimitRegisterRequests ==
    {[monthly_income |-> 50000, phone_number |-> Phone(2)],
     [monthly_income |-> 1000, phone_number |-> Phone(3)],
     [monthly_income |-> 12500, phone_number |-> Phone(4)],
     [monthly_income |-> 37500, phone_number |-> Phone(5)],
     [monthly_income |-> 1389, phone_number |-> Phone(6)],
     [monthly_income |-> 1388, phone_number |-> Phone(6)]}

\* customer spreadsheets without an approved limit: salaries 1388.89
\* (36 * salary = 50,000.04) and 62,500.00 (2,250,000)
LimitCustomerFiles ==
    {<<[customer_id |-> 1, phone_number |-> Phone(7),
        monthly_salary |-> 138889, approved_limit |-> 0, current_debt |-> 0]>>,
     <<[customer_id |-> 1, phone_number |-> Phone(8),
        monthly_salary |-> 6250000, approved_limit |-> 0, current_debt |-> 0]>>}

LimitRegister ==
    /\ \E request \in LimitRegisterRequests : register(request)
    /\ UNCHANGED in_flight

LimitLoadCustomers ==
    /\ \E file \in LimitCustomerFiles : load_customers_task(file)
    /\ UNCHANGED in_flight

LimitNext ==
    \/ LimitRegister
    \/ LimitLoadCustomers

SpecLimit == Init /\ [][LimitNext]_vars

-----------------------------------------------------------------------------
(* The credit-score writers of one ingested customer, interleaved *)

SaveCreditScore ==
    \E w \in ScoreWriters, cid \in 1..Len(customers), score \in DirectScores :
        SaveDemote(w, cid, score)

SaveCreditScoreInsert == \E w \in ScoreWriters : SaveInsert(w)

RefreshCreditScore == \E cid \in 1..Len(customers) : RefreshGet(cid)

ScoresNext ==
    \/ LoadCustomers
    \/ LoadLoans
    \/ SaveCreditScore
    \/ SaveCreditScoreInsert
    \/ RefreshCreditScore
    \/ RefreshCreate
    \/ RefreshSaveDemote
    \/ RefreshSaveUpdate

SpecScores == Init /\ [][ScoresNext]_vars

-----------------------------------------------------------------------------
(* The three views on request bodies that fail validation or name a         *)
(* customer that is not stored.  A body is the record of the fields it      *)
(* carries.                                                                 *)

\* register bodies: valid; income 0 and negative; a 5-digit phone number; a
\* body without monthly_income and one without phone_number; a second valid
\* one.  Repeating a valid body meets a phone number in use.
ValidationRegisterRequests ==
    {[monthly_income |-> 50000, phone_number |-> Phone(2)],
     [monthly_income |-> 0, phone_number |-> Phone(3)],
     [monthly_income |-> -100, phone_number |-> Phone(3)],
     [monthly_income |-> 60000, phone_number |-> [digits |-> 5, tag |-> 4]],
     [phone_number |-> Phone(3)],
     [monthly_income |-> 60000],
     [monthly_income |-> 60000, phone_number |-> Phone(5)]}

\* check-eligibility bodies: valid; without tenure; without customer_id; an
\* interest_rate of 1000.00; an unknown customer
ValidationCheckRequests ==
    {Request(1, 3000000, 1200, 3),
     [customer_id |-> 1, loan_amount |-> 3000000, interest_rate |-> 1200],
     [loan_amount |-> 3000000, interest_rate |-> 1200, tenure |-> 3],
     Request(1, 3000000, 100000, 3),
     Request(MaxCustomers + 1, 3000000, 1200, 3)}

\* create-loan bodies: valid; without loan_amount; without interest_rate; an
\* unknown customer
ValidationCreateRequests ==
    {Request(1, 3000000, 1200, 3),
     [customer_id |-> 1, interest_rate |-> 1200, tenure |-> 3],
     [customer_id |-> 1, loan_amount |-> 3000000, tenure |-> 3],
     Request(MaxCustomers + 1, 3000000, 1200, 3)}

ValidationRegister ==
    /\ \E request \in ValidationRegisterRequests : register(request)
    /\ UNCHANGED in_flight

ValidationCheckEligibility ==
    /\ \E request \in ValidationCheckRequests : check_eligibility(request)
    /\ UNCHANGED in_flight

ValidationCreateLoan ==
    /\ \E request \in ValidationCreateRequests : create_loan(request)
    /\ UNCHANGED in_flight

ValidationNext ==
    \/ ValidationRegister
    \/ ValidationCheckEligibility
    \/ ValidationCreateLoan

SpecValidation == Init /\ [][ValidationNext]_vars

-----------------------------------------------------------------------------
(* Registrations by concurrent workers, and repeated ingestion runs *)

\* register bodies: the phone number of the customer spreadsheet, and another
IngestRegisterRequests ==
    {[monthly_income |-> 50000, phone_number |-> Phone(1)],
     [monthly_income |-> 50000, phone_number |-> Phone(2)]}

IngestRegisterValidate ==
    \E w \in RequestWorkers, request \in IngestRegisterRequests :
        RegisterValidate(w, request)

IngestRegisterInsert == \E w \in RequestWorkers : RegisterInsert(w)

IngestNext ==
    \/ IngestRegisterValidate
    \/ IngestRegisterInsert
    \/ LoadCustomers
    \/ LoadLoans

SpecIngest == Init /\ [][IngestNext]_vars

-----------------------------------------------------------------------------
(* Loan ingestion tasks that run at the same time, each on a spreadsheet of *)
(* one row for the same customer                                            *)

DebtLoanFiles == {<<LoanRow1>>, <<LoanRow2>>, <<LoanRow3>>}

DebtNext ==
    \/ LoadCustomers
    \/ \E t \in LoanTasks, file \in DebtLoanFiles : IngestLoanInsert(t, file)
    \/ \E t \in LoanTasks : IngestDebtRead(t)
    \/ \E t \in LoanTasks : IngestDebtWrite(t)

SpecDebt == Init /\ [][DebtNext]_vars

-----------------------------------------------------------------------------
(* create-loan requests that read the current score while the credit-score  *)
(* writers are at work                                                      *)

\* 30,000 rupees over 3 months at 12 %: within the limit and the income of
\* the ingested customer
ReaderCreateRequests == {Request(1, 3000000, 1200, 3)}

ReaderNext ==
    \/ LoadCustomers
    \/ SaveCreditScore
    \/ SaveCreditScoreInsert
    \/ RefreshCreditScore
    \/ RefreshCreate
    \/ RefreshSaveDemote
    \/ RefreshSaveUpdate
    \/ (\E request \in ReaderCreateRequests : create_loan(request))
           /\ UNCHANGED in_flight

SpecReaders == Init /\ [][ReaderNext]_vars

-----------------------------------------------------------------------------
(* create-loan requests served by concurrent workers *)

\* 1,000,000 and 900,000 rupees over 48 months without interest: an EMI of
\* 20,833.33 and 18,750.00 for a customer with salary 50,000 and limit 1,800,000
RaceCreateRequests ==
    {Request(1, 100000000, 0, 48),
     Request(1, 90000000, 0, 48)}

RaceNext ==
    \/ LedgerRegister
    \/ \E w \in RequestWorkers, request \in RaceCreateRequests :
           CreateLoanEvaluate(w, request)
    \/ \E w \in RequestWorkers : CreateLoanStore(w)
    \/ NextDay

SpecRace == Init /\ [][RaceNext]_vars

-----------------------------------------------------------------------------
(* create-loan requests of a registered customer, one after the other *)

\* 60,000 and 20,000 rupees over 3 months at 12 % (EMI 20,401.33 and
\* 6,800.44), and 1,000,000 over 48 months without interest (20,833.33)
RepayCreateRequests ==
    {Request(1, 6000000, 1200, 3),
     Request(1, 2000000, 1200, 3),
     Request(1, 100000000, 0, 48)}

RepayNext ==
    \/ LedgerRegister
    \/ (\E request \in RepayCreateRequests : create_loan(request))
           /\ UNCHANGED in_flight
    \/ NextDay

SpecRepay == Init /\ [][RepayNext]_vars

-----------------------------------------------------------------------------
(* Loans over the calendar: ingested loans with their own dates, loans      *)
(* created on different days                                                *)

\* the days of 2025-01-01 .. 2027-12-31
Days == 0..1094

\* 2026-11-01, 2026-12-01, 2026-12-31, 2027-01-01, 2027-01-30, 2027-09-28
CalendarDays == <<669, 699, 729, 730, 759, 1000>>

\* loan rows of customer 1: an end date long after the tenure is over, and a
\* start date in the future (2027-10-08 .. 2027-12-15)
CalendarLoanFiles ==
    {<<LoanRow1, LoanRow2,
       [LoanRow2 EXCEPT !.loan_id = 5, !.tenure = 2, !.end_date = 1078],
       [LoanRow2 EXCEPT !.loan_id = 6, !.start_date = 1010, !.end_date = 1078]>>}

\* 30,000 rupees over 3 months at 12 %, and over 12 months without interest
CalendarCreateRequests ==
    {Request(1, 3000000, 1200, 3),
     Request(1, 3000000, 0, 12)}

CalendarNext ==
    \/ LoadCustomers
    \/ (\E file \in CalendarLoanFiles : load_loans_task(file)) /\ UNCHANGED in_flight
    \/ (\E request \in CalendarCreateRequests : create_loan(request))
           /\ UNCHANGED in_flight
    \/ /\ \E i \in 1..(Len(CalendarDays) - 1) :
              /\ today = CalendarDays[i]
              /\ today' = CalendarDays[i + 1]
       /\ resp' = Response("date", "advanced", [from |-> today], None, NoBody)
       /\ UNCHANGED <<customers, loans, credit_scores, applications, in_flight>>

SpecCalendar == Init /\ [][CalendarNext]_vars

-----------------------------------------------------------------------------
(* Properties.  The quantities the claims speak of are restated here from   *)
(* the stored tables, not through the operators of the handlers.            *)

RECURSIVE SumFn(_, _)
SumFn(f, S) ==
    IF S = {} THEN 0
    ELSE LET x == CHOOSE y \in S : TRUE IN f[x] + SumFn(f, S \ {x})

\* the loans of customer cid that are active today
ActiveLoanIdx(cid) ==
    {i \in 1..Len(loans) :
        loans[i].customer = cid /\ repayments_left_on(loans[i], today) > 0}

\* sum of the monthly repayments of the active loans of cid
ActiveRepayments(cid) ==
    SumFn([i \in 1..Len(loans) |-> loans[i].monthly_repayment], ActiveLoanIdx(cid))

\* sum of the principal of the active loans of cid
ActivePrincipal(cid) ==
    SumFn([i \in 1..Len(loans) |-> loans[i].loan_amount], ActiveLoanIdx(cid))

\* the last response is a check-eligibility decision
CheckDecided == resp.op = "check_eligibility" /\ resp.status = 200

\* the EMI of the request of the last response, as check-eligibility computes it
CheckedEmi ==
    calculate_emi(resp.request.loan_amount, resp.request.interest_rate,
                  resp.request.tenure)

\* existing repayments + requested EMI > half of the monthly salary
CheckedGateExceeded ==
    2 * ActiveRepayments(resp.request.customer_id) + Ceil2(CheckedEmi)
        > customers[resp.request.customer_id].monthly_salary

\* C1: whenever the monthly repayments of the customer's active loans plus the
\* EMI of the requested loan exceed half of the monthly salary, the
\* check-eligibility decision is not approved, its corrected rate is null and
\* it carries the computed EMI, whatever the credit score is.
C1_AffordabilityGate ==
    (CheckDecided /\ CheckedGateExceeded) =>
        /\ resp.decision[1].approved = FALSE
        /\ resp.decision[1].corrected_interest_rate = None
        /\ resp.decision[1].emi = CheckedEmi
        /\ resp.body.approval = FALSE
        /\ resp.body.monthly_installment = CheckedEmi

\* a decision refused by the gate although the requested EMI alone is within
\* half of the salary and the score alone (above 50) would approve
C1_Witness ==
    /\ CheckDecided
    /\ CheckedGateExceeded
    /\ Ceil2(CheckedEmi) <= customers[resp.request.customer_id].monthly_salary
    /\ resp.decision[1].credit_score > 50
    /\ resp.decision[1].approved = FALSE

\* the corrected rate the tiers prescribe for a score and a requested rate
TierRate(score, rate) ==
    IF 30 < score /\ score <= 50 /\ rate <= 1200 THEN 1210
    ELSE IF 10 < score /\ score <= 30 /\ rate <= 1600 THEN 1610
    ELSE rate

\* C2: for every check-eligibility request that passes the affordability gate,
\* the request is approved exactly when the credit score is above 10; the
\* corrected rate is 12.1 for 30 < score <= 50 with a requested rate <= 12.0,
\* 16.1 for 10 < score <= 30 with a requested rate <= 16.0, and the requested
\* rate otherwise (in particular whenever the score is above 50).
C2_ScoreTiers ==
    (CheckDecided /\ ~CheckedGateExceeded) =>
        /\ resp.decision[1].approved = (resp.decision[1].credit_score > 10)
        /\ resp.body.approval = (resp.decision[1].credit_score > 10)
        /\ resp.decision[1].corrected_interest_rate =
               Some(TierRate(resp.decision[1].credit_score,
                             resp.request.interest_rate))
        /\ resp.body.corrected_interest_rate =
               TierRate(resp.decision[1].credit_score, resp.request.interest_rate)

\* a request at 12.0 % answered at the top of the tier (30, 50]: corrected to 12.1
C2_Witness ==
    /\ CheckDecided
    /\ ~CheckedGateExceeded
    /\ resp.decision[1].credit_score = 50
    /\ resp.request.interest_rate = 1200
    /\ resp.decision[1].approved
    /\ resp.body.corrected_interest_rate = 1210

\* C3: whenever the principal of the customer's active loans exceeds the
\* approved limit, the score of the check-eligibility decision is 0, whatever
\* the loan history scores, and the request is not approved.
C3_OverLimitOverride ==
    (CheckDecided /\ ActivePrincipal(resp.request.customer_id)
                        > customers[resp.request.customer_id].approved_limit) =>
        /\ resp.decision[1].credit_score = 0
        /\ resp.decision[1].approved = FALSE
        /\ resp.body.approval = FALSE

\* an over-limit customer whose history scores above 50 and whose request
\* passes the affordability gate
C3_Witness ==
    /\ CheckDecided
    /\ ActivePrincipal(resp.request.customer_id)
           > customers[resp.request.customer_id].approved_limit
    /\ calculate_credit_score(resp.request.customer_id) > 50
    /\ ~CheckedGateExceeded
    /\ resp.decision[1].credit_score = 0
    /\ resp.decision[1].approved = FALSE

\* the last response is a create-loan decision
CreateDecided == resp.op = "create_loan" /\ resp.decision # None

\* the current cached score of cid, or 50 when there is none
CachedScore(cid) ==
    LET cur == {i \in 1..Len(credit_scores) :
                   credit_scores[i].customer = cid /\ credit_scores[i].is_current}
    IN IF cur = {} THEN 50
       ELSE credit_scores[CHOOSE i \in cur : \A j \in cur : i <= j].score

\* the message of the first failing gate of create-loan for request r, read on
\* the tables as they are when the request arrives.  The affordability gate of
\* this path compares the EMI of the requested loan with half of the salary.
GateMessage(r) ==
    IF Ceil2(EmiValue(r.loan_amount, r.interest_rate, r.tenure))
           > customers[r.customer_id].monthly_salary
    THEN "EMI exceeds 50% of monthly income"
    ELSE IF ActivePrincipal(r.customer_id) + r.loan_amount
                > customers[r.customer_id].approved_limit
    THEN "Exceeds approved credit limit"
    ELSE IF CachedScore(r.customer_id) < 50
    THEN "Credit score too low"
    ELSE "Loan approved"

C4_Step ==
    (resp'.op = "create_loan" /\ resp'.decision # None) =>
        /\ resp'.decision[1].credit_score = CachedScore(resp'.request.customer_id)
        /\ resp'.body.message = GateMessage(resp'.request)
        /\ resp'.body.loan_approved = (GateMessage(resp'.request) = "Loan approved")
        /\ applications'[Len(applications')].status =
               IF GateMessage(resp'.request) = "Loan approved"
               THEN "APPROVED" ELSE "REJECTED"

\* C4: create-loan applies the affordability gate, then the approved-limit
\* gate (active principal + requested amount > approved_limit), then the score
\* gate (score < 50), the score being the cached current score or 50 when there
\* is none; the request is approved exactly when all three pass and is otherwise
\* rejected with the message of the first failing gate.
C4_CreateLoanGates == [][C4_Step]_vars

\* a request refused for the approved limit although its cached score is below
\* 50 as well: the limit gate is read before the score gate
C4_Witness ==
    /\ CreateDecided
    /\ resp.body.message = "Exceeds approved credit limit"
    /\ resp.decision[1].credit_score < 50
    /\ ~resp.body.loan_approved
    /\ applications[Len(applications)].status = "REJECTED"

\* C5: a create-loan request of a known customer that is rejected on business
\* grounds is answered with status 400 and loan_approved = false, an approved
\* one with status 200.
C5_RejectionStatus ==
    CreateDecided =>
        resp.status = (IF resp.body.loan_approved THEN 200 ELSE 400)

\* a request rejected for its credit score and answered with 200
C5_Witness ==
    /\ CreateDecided
    /\ ~resp.body.loan_approved
    /\ resp.body.message = "Credit score too low"
    /\ resp.status = 200

\* C6: check-eligibility creates no LoanApplication and no Loan and leaves
\* every stored customer, loan, credit-score and application record unchanged,
\* for every request and every verdict.
C6_CheckIsReadOnly ==
    [][resp'.op = "check_eligibility" =>
          /\ customers' = customers
          /\ loans' = loans
          /\ credit_scores' = credit_scores
          /\ applications' = applications]_vars

\* an approving check-eligibility answer in a system that holds customers and
\* loans but no application
C6_Witness ==
    /\ CheckDecided
    /\ resp.decision[1].approved
    /\ applications = <<>>
    /\ ActiveLoanIdx(resp.request.customer_id) # {}

C7_Step ==
    (resp'.op = "create_loan" /\ CustomerExists(resp'.request.customer_id)) =>
        /\ Len(applications') = Len(applications) + 1
        /\ SubSeq(applications', 1, Len(applications)) = applications
        /\ applications'[Len(applications')].customer = resp'.request.customer_id
        /\ applications'[Len(applications')].status \in {"APPROVED", "REJECTED"}
        /\ IF applications'[Len(applications')].status = "APPROVED"
           THEN /\ Len(loans') = Len(loans) + 1
                /\ SubSeq(loans', 1, Len(loans)) = loans
                /\ applications'[Len(applications')].loan
                       = Some(loans'[Len(loans')].loan_id)
                /\ \A i \in 1..Len(loans) :
                       loans[i].loan_id # loans'[Len(loans')].loan_id
                /\ loans'[Len(loans')].customer = resp'.request.customer_id
                /\ loans'[Len(loans')].loan_amount = resp'.request.loan_amount
                /\ loans'[Len(loans')].interest_rate = resp'.request.interest_rate
                /\ loans'[Len(loans')].tenure = resp'.request.tenure
                /\ loans'[Len(loans')].start_date = today
                /\ loans'[Len(loans')].end_date = today + 30 * resp'.request.tenure
           ELSE /\ loans' = loans
                /\ applications'[Len(applications')].loan = None

\* C7: every create-loan request of a known customer records exactly one
\* application; it ends APPROVED exactly when a new Loan was created and linked
\* to it, that Loan carrying the requested amount, rate and tenure with
\* start_date = today and end_date = today + 30 * tenure days; a rejected
\* request creates no Loan and its application has no linked Loan.
C7_OneApplicationPerRequest == [][C7_Step]_vars

\* C7 for the requests that reach a decision (tenure # 0): the part of the
\* claim that the handler does implement.
C7_DecidedRequests ==
    [][(resp'.op = "create_loan" /\ resp'.decision # None) => C7_Step]_vars

\* a create-loan request of a known customer that left no application
C7_Witness ==
    /\ resp.op = "create_loan"
    /\ CustomerExists(resp.request.customer_id)
    /\ resp.status = 500
    /\ applications = <<>>

\* C8: once the create-loan request that recorded an application is over, no
\* later operation changes the application: it stays in the table as it was,
\* with its terminal status APPROVED or REJECTED and the score of its decision.
C8_ApplicationsFrozen ==
    [][\A i \in 1..Len(applications) :
          /\ i <= Len(applications')
          /\ applications'[i] = applications[i]
          /\ applications[i].status \in {"APPROVED", "REJECTED"}]_vars

\* after a score refresh, an earlier application still carries the score of
\* its decision, which is no longer the customer's cached score
C8_Witness ==
    /\ resp.op = "calculate_credit_scores"
    /\ \E i \in 1..Len(applications) :
          /\ applications[i].credit_score_at_application
                 # CachedScore(applications[i].customer)
          /\ applications[i].status = "APPROVED"

\* the reason code of each rejection message (LoanApplication.REJECTION_REASONS)
ReasonCode(message) ==
    IF message = "EMI exceeds 50% of monthly income" THEN "HIGH_EMI_RATIO"
    ELSE IF message = "Exceeds approved credit limit" THEN "OVER_APPROVED_LIMIT"
    ELSE IF message = "Credit score too low" THEN "LOW_CREDIT_SCORE"
    ELSE "NONE"

\* C9: every REJECTED application stores the reason code of the gate that
\* failed (HIGH_EMI_RATIO, OVER_APPROVED_LIMIT or LOW_CREDIT_SCORE) together
\* with its message; an APPROVED application stores neither.
C9_RejectionReasonStored ==
    \A i \in 1..Len(applications) :
        IF applications[i].status = "REJECTED"
        THEN /\ applications[i].rejection_message # None
             /\ ReasonCode(applications[i].rejection_message[1]) # "NONE"
             /\ applications[i].rejection_reason
                    = Some(ReasonCode(applications[i].rejection_message[1]))
        ELSE /\ applications[i].rejection_message = None
             /\ applications[i].rejection_reason = None

\* C9, the part the handler implements: the message of a rejection is stored,
\* and an approved application stores neither code nor message.
C9_MessageStored ==
    \A i \in 1..Len(applications) :
        /\ (applications[i].status = "REJECTED")
               = (applications[i].rejection_message # None)
        /\ applications[i].status = "APPROVED"
               => applications[i].rejection_reason = None

\* a rejected application with its message and without a reason code
C9_Witness ==
    \E i \in 1..Len(applications) :
        /\ applications[i].status = "REJECTED"
        /\ applications[i].rejection_message = Some("Credit score too low")
        /\ applications[i].rejection_reason = None

\* the reference scoring function, on the exact total of the loan amounts
RefScore(cid) ==
    LET idx == {i \in 1..Len(loans) : loans[i].customer = cid}
        count == Cardinality(idx)
        paid == Cardinality({i \in idx : loans[i].emis_paid_on_time > 0})
        this_year == Cardinality({i \in idx :
                         YearOf(loans[i].start_date) = YearOf(today)})
        total == SumFn([i \in 1..Len(loans) |-> loans[i].loan_amount], idx)
    IN IF count = 0 THEN 50
       ELSE Min(100, ((30 * paid) \div count) + Min(5 * count, 20)
                         + Min(5 * this_year, 20)
                         + Min(total \div 10000000, 20))

C10_ScoreWithinOne ==
    \A cid \in 1..Len(customers) :
        /\ calculate_credit_score(cid) \in {RefScore(cid) - 1, RefScore(cid)}
        /\ SumLoanAmount(LoansOf(cid)) % 10000000 # 0
               => calculate_credit_score(cid) = RefScore(cid)

-----------------------------------------------------------------------------
(* Credit score range *)

\* C11: for every non-empty loan history the computed credit score is an
\* integer in [0, 100], and so is every credit score that check-eligibility
\* uses after the over-limit override.
C11_ScoreInRange ==
    /\ \A cid \in 1..Len(customers) :
           Len(LoansOf(cid)) > 0 => calculate_credit_score(cid) \in 0..100
    /\ CheckDecided => resp.decision[1].credit_score \in 0..100

\* C11 on histories of non-negative amounts, and the upper bound on all
C11_ScoreInRangeOfPositiveHistory ==
    \A cid \in 1..Len(customers) :
        /\ calculate_credit_score(cid) <= 100
        /\ (\A i \in 1..Len(loans) : loans[i].loan_amount >= 0)
               => calculate_credit_score(cid) >= 0

\* a check-eligibility answer computed from a negative score: the customer's
\* only loan was created by create-loan with a negative amount
C11_Witness ==
    /\ CheckDecided
    /\ resp.decision[1].credit_score < 0
    /\ \E i \in 1..Len(loans) :
           /\ loans[i].customer = resp.request.customer_id
           /\ loans[i].loan_amount < 0

-----------------------------------------------------------------------------
(* Credit score and the calendar *)

\* calculate_credit_score reads the customer's loans and date.today() and
\* nothing else: a step that leaves the loans alone leaves every score alone
C12_Step ==
    loans' = loans =>
        \A cid \in 1..Len(customers) :
            CreditScoreOn(LoansOf(cid), today') = CreditScoreOn(LoansOf(cid), today)

\* C12: computing the credit score twice for the same customer, with no loan
\* added or changed in between, returns the same integer both times,
\* regardless of when the two computations run.
C12_ScoreRepeatable == [][C12_Step]_vars

\* C12 for two computations in the same calendar year
C12_ScoreRepeatableWithinYear ==
    [][YearOf(today') = YearOf(today) => C12_Step]_vars

\* the year has changed since the score-refresh stored 60 for a customer
\* with three loans of 2026; computed today, the same history scores 45
C12_Witness ==
    /\ resp.op = "date"
    /\ YearOf(resp.request.from) # YearOf(today)
    /\ \E cid \in 1..Len(customers) :
           /\ Len(LoansOf(cid)) = 3
           /\ \A i \in 1..Len(loans) :
                  loans[i].customer = cid
                      => YearOf(loans[i].start_date) = YearOf(resp.request.from)
           /\ \E k \in 1..Len(credit_scores) :
                  /\ credit_scores[k].customer = cid
                  /\ credit_scores[k].is_current
                  /\ credit_scores[k].score = 60
           /\ calculate_credit_score(cid) = 45

-----------------------------------------------------------------------------
(* EMI at rate 0 *)

\* the real v = q + r/d equals principal / tenure
IsQuotient(v, principal, tenure) ==
    /\ v.q = principal \div tenure
    /\ v.r * tenure = (principal % tenure) * v.d

ZeroRateAnswered(op) ==
    /\ resp.op = op
    /\ resp.decision # None
    /\ resp.request.interest_rate = 0

\* C13: for an annual rate of 0 the EMI equals principal / tenure exactly, for
\* every principal > 0 and tenure >= 1, in the check-eligibility computation
\* and in the create-loan computation alike.  The EMI of a computation is
\* the one it returns to the view.
C13_ZeroRateEmi ==
    \A op \in {"check_eligibility", "create_loan"} :
        (ZeroRateAnswered(op) /\ resp.request.loan_amount > 0)
            => IsQuotient(resp.decision[1].emi,
                          resp.request.loan_amount, resp.request.tenure)

\* C13 where it holds: check-eligibility, and a create-loan that is rejected
C13_ZeroRateEmiUnlessApproved ==
    \A op \in {"check_eligibility", "create_loan"} :
        (/\ ZeroRateAnswered(op)
         /\ resp.request.loan_amount > 0
         /\ op = "create_loan" => ~resp.decision[1].approved)
            => IsQuotient(resp.decision[1].emi,
                          resp.request.loan_amount, resp.request.tenure)

\* an approved create-loan at rate 0 whose amount is not a multiple of the
\* tenure: the EMI that evaluate_loan_eligibility returns, and that the loan
\* stores, is a whole number of paise
C13_Witness ==
    /\ ZeroRateAnswered("create_loan")
    /\ resp.decision[1].approved
    /\ resp.request.loan_amount % resp.request.tenure # 0
    /\ resp.decision[1].emi.r = 0
    /\ ~IsQuotient(resp.decision[1].emi,
                   resp.request.loan_amount, resp.request.tenure)
    /\ \E i \in 1..Len(loans) :
           /\ loans[i].loan_id = resp.body.loan_id[1]
           /\ loans[i].monthly_repayment = resp.decision[1].emi.q

-----------------------------------------------------------------------------
(* EMI and the rate *)

\* v <= w for reals q + r/d
RealLeq(v, w) == v.q < w.q \/ (v.q = w.q /\ v.r * w.d <= w.r * v.d)

\* two check-eligibility answers in a row for the same customer, principal
\* and tenure, the second at a higher rate
RateRaised ==
    /\ CheckDecided
    /\ resp'.op = "check_eligibility" /\ resp'.status = 200
    /\ resp'.request.customer_id = resp.request.customer_id
    /\ resp'.request.loan_amount = resp.request.loan_amount
    /\ resp'.request.tenure = resp.request.tenure
    /\ resp'.request.interest_rate > resp.request.interest_rate

\* C14: for fixed principal and tenure the EMI is monotonically increasing in
\* the annual rate: for all rates 0 <= r1 < r2, the EMI computed at r1 is not
\* greater than the EMI computed at r2.
C14_EmiMonotone ==
    [][RateRaised => RealLeq(resp.decision[1].emi, resp'.decision[1].emi)]_vars

\* C14 for rates above 0
C14_EmiMonotoneAboveZero ==
    [][(RateRaised /\ resp.request.interest_rate > 0)
           => RealLeq(resp.decision[1].emi, resp'.decision[1].emi)]_vars

\* an EMI at a positive rate that is below principal / tenure, the EMI at 0
C14_Witness ==
    /\ CheckDecided
    /\ resp.request.interest_rate > 0
    /\ resp.request.loan_amount > 0
    /\ ~RealLeq([q |-> resp.request.loan_amount \div resp.request.tenure,
                 r |-> resp.request.loan_amount % resp.request.tenure,
                 d |-> resp.request.tenure],
                resp.decision[1].emi)

-----------------------------------------------------------------------------
(* current_debt *)

\* the loans of customer cid in the table ls, and their total amount
LoanIdxIn(ls, cid) == {i \in 1..Len(ls) : ls[i].customer = cid}

TotalAmountIn(ls, cid) ==
    SumFn([i \in 1..Len(ls) |-> ls[i].loan_amount], LoanIdxIn(ls, cid))

\* a step that adds a loan to customer cid
LoanAdded(cid) ==
    Cardinality(LoanIdxIn(loans', cid)) > Cardinality(LoanIdxIn(loans, cid))

C15_Step ==
    \A cid \in 1..Len(customers') :
        LoanAdded(cid)
            => customers'[cid].current_debt = TotalAmountIn(loans', cid)

\* C15: after every completed operation that adds a loan to a customer (a
\* loan-ingestion run, or an approved create-loan request), the customer's
\* stored current_debt equals the sum of loan_amount over all of that
\* customer's loans.
C15_DebtIsLoanSum == [][C15_Step]_vars

\* C15 for loan ingestion alone
C15_DebtIsLoanSumAfterIngestion ==
    [][resp'.op = "load_loans" => C15_Step]_vars

\* an approved create-loan has added a loan and the customer's current_debt
\* is not the total of the customer's loans
C15_Witness ==
    /\ CreateDecided
    /\ resp.decision[1].approved
    /\ \E i \in 1..Len(loans) :
           /\ loans[i].loan_id = resp.body.loan_id[1]
           /\ loans[i].customer = resp.request.customer_id
    /\ customers[resp.request.customer_id].current_debt
           # TotalAmountIn(loans, resp.request.customer_id)

-----------------------------------------------------------------------------
(* Current credit scores *)

CurrentRows(cs, cid) ==
    {k \in 1..Len(cs) : cs[k].customer = cid /\ cs[k].is_current}

\* C16: in every reachable state, under any interleaving of credit-score
\* writers for the same customer (direct saves of a new current score, runs
\* of the score-refresh task), at most one CreditScore record of a customer
\* has is_current = true.
C16_AtMostOneCurrent ==
    \A cid \in 1..Len(customers) :
        Cardinality(CurrentRows(credit_scores, cid)) <= 1

\* two writers raced: the INSERT of one of them was refused because the
\* other's current row was already there
C16_Witness ==
    /\ resp.op = "save_insert"
    /\ resp.status = "IntegrityError"
    /\ Cardinality(CurrentRows(credit_scores, resp.request.customer_id)) = 1

\* no process is between two statements before the step, or none but w
OthersIdle(w) ==
    /\ in_flight.refresh = Idle
    /\ \A v \in ScoreWriters \ {w} : in_flight.save[v] = Idle

\* a direct save that no other writer overlaps: both statements succeed, the
\* first leaves the customer without a current row, the second leaves the
\* new row as the only current one
C17_Step ==
    /\ (/\ resp'.op = "save_demote"
        /\ in_flight = NoneInFlight
        /\ CurrentRows(credit_scores, resp'.request.customer_id) # {})
           => /\ resp'.status = "done"
              /\ CurrentRows(credit_scores', resp'.request.customer_id) = {}
    /\ (/\ resp'.op = "save_insert"
        /\ OthersIdle(resp'.request.writer)
        /\ CurrentRows(credit_scores, resp'.request.customer_id) = {})
           => /\ resp'.status = "done"
              /\ CurrentRows(credit_scores', resp'.request.customer_id)
                     = {Len(credit_scores')}
              /\ credit_scores'[Len(credit_scores')].score = resp'.request.score

\* C17: writing a new current credit score for a customer who already has one
\* always succeeds, demotes the previous current record to non-current and
\* leaves the new record as the customer's only current score, for any number
\* of successive writes for the same customer (second, third, fourth...).
C17_EveryWriteSucceeds == [][C17_Step]_vars

\* C17 for the second write: the customer has a current record and no other
C17_SecondWriteSucceeds ==
    [][(\A k \in 1..Len(credit_scores) : credit_scores[k].is_current)
           => C17_Step]_vars

\* the third write in a row for a customer: the UPDATE that demotes the
\* second record collides with the first, already (customer, False)
C17_Witness ==
    /\ resp.op = "save_demote"
    /\ resp.status = "IntegrityError"
    /\ in_flight = NoneInFlight
    /\ \E i, j \in 1..Len(credit_scores) :
           /\ credit_scores[i].customer = resp.request.customer_id
           /\ credit_scores[j].customer = resp.request.customer_id
           /\ ~credit_scores[i].is_current
           /\ credit_scores[j].is_current
           /\ credit_scores[j].score # resp.request.score

-----------------------------------------------------------------------------
(* Credit score history *)

RefreshSteps == {"refresh_get", "refresh_create", "refresh_demote", "refresh_update"}

\* every record of the table is still there with the score it had
ScoresKept ==
    /\ Len(credit_scores') >= Len(credit_scores)
    /\ \A k \in 1..Len(credit_scores) :
           credit_scores'[k].score = credit_scores[k].score

\* C18: a credit-score refresh never edits the score value of an existing
\* CreditScore record: the recomputed score is written as a new current
\* record that supersedes the old one, so every earlier record keeps the
\* score it was created with.
C18_RefreshKeepsScores == [][resp'.op \in RefreshSteps => ScoresKept]_vars

\* the direct saves do keep the scores of the records they demote
C18_SaveKeepsScores ==
    [][resp'.op \in {"save_demote", "save_insert"} => ScoresKept]_vars

\* the refresh has written its score for a customer and the customer still
\* has a single record: the one that was there, rewritten
C18_Witness ==
    /\ resp.op = "refresh_update"
    /\ resp.status = "done"
    /\ \E k \in 1..Len(credit_scores) :
           /\ credit_scores[k].customer = resp.request.customer_id
           /\ credit_scores[k].score = resp.request.score
           /\ credit_scores[k].is_current
           /\ \A j \in 1..Len(credit_scores) :
                  credit_scores[j].customer = resp.request.customer_id => j = k

-----------------------------------------------------------------------------
(* Approved limit *)

\* one lakh, 100,000 rupees, in paise
Lakh == 10000000

\* C19: for every customer created by registration, or saved without an
\* explicit approved limit, approved_limit is the multiple of 100,000 nearest
\* to 36 * monthly salary: it is divisible by 100,000 and differs from
\* 36 * monthly salary by at most 50,000 (e.g. salary 50,000 gives 1,800,000).
C19_NearestLakh ==
    \A cid \in 1..Len(customers) :
        /\ customers[cid].approved_limit % Lakh = 0
        /\ 2 * Abs(customers[cid].approved_limit
                       - 36 * customers[cid].monthly_salary) <= Lakh
        /\ customers[cid].monthly_salary = 5000000
               => customers[cid].approved_limit = 18 * Lakh

\* salary 50,000 with limit 1,800,000, next to a customer whose 36 salaries
\* are half-way between two lakhs
C19_Witness ==
    /\ \E cid \in 1..Len(customers) :
           /\ customers[cid].monthly_salary = 5000000
           /\ customers[cid].approved_limit = 18 * Lakh
    /\ \E cid \in 1..Len(customers) :
           2 * Abs(customers[cid].approved_limit
                       - 36 * customers[cid].monthly_salary) = Lakh

C20_Step ==
    /\ Len(customers') >= Len(customers)
    /\ \A cid \in 1..Len(customers) :
           customers'[cid].approved_limit = customers[cid].approved_limit

\* C20: a customer's stored approved_limit is set once at creation: no later
\* operation (check-eligibility, create-loan, loan ingestion with its
\* current_debt update, credit-score refresh) changes it, for any customer
\* including one whose approved_limit is 0.
C20_ApprovedLimitFrozen == [][C20_Step]_vars

\* a customer with approved_limit 0 after all four operations: ingested loans
\* and the current_debt they add up to, an application, a cached score, and
\* a check-eligibility answer
C20_Witness ==
    /\ CheckDecided
    /\ \E cid \in 1..Len(customers) :
           /\ cid = resp.request.customer_id
           /\ customers[cid].approved_limit = 0
           /\ customers[cid].current_debt > 0
           /\ \E i \in 1..Len(loans) : loans[i].customer = cid
           /\ \E i \in 1..Len(applications) : applications[i].customer = cid
           /\ \E k \in 1..Len(credit_scores) : credit_scores[k].customer = cid

-----------------------------------------------------------------------------
(* C21 *)

LoanRequestOps == {"check_eligibility", "create_loan"}

\* C21: a check-eligibility or create-loan request with a tenure below 1 is
\* rejected by request validation with status 400, before the EMI is computed
\* (stated for the requests of a known customer).
C21_ZeroTenureRejected ==
    (/\ resp.op \in LoanRequestOps
     /\ resp.request.tenure < 1
     /\ CustomerExists(resp.request.customer_id))
        => resp.status = 400

\* C21 as the code has it: a tenure of 0 passes validation and is never
\* answered with 400; the request of a known customer ends in a server error
C21_ZeroTenureIsServerError ==
    (/\ resp.op \in LoanRequestOps
     /\ resp.request.tenure = 0
     /\ CustomerExists(resp.request.customer_id))
        => (resp.status = 500 /\ resp.decision = None)

\* check-eligibility with tenure 0 for a stored customer: the division by zero
\* in the EMI expression was reached
C21_Witness ==
    /\ resp.op = "check_eligibility"
    /\ resp.request.tenure = 0
    /\ CustomerExists(resp.request.customer_id)
    /\ resp.status = 500

-----------------------------------------------------------------------------
(* C22 *)

\* a register body that fails field validation on the stored customers
RegisterBodyFails(request) ==
    \/ ~({"monthly_income", "phone_number"} \subseteq DOMAIN request)
    \/ request.monthly_income <= 0
    \/ request.phone_number.digits # 10
    \/ \E i \in 1..Len(customers) : customers[i].phone_number = request.phone_number

\* a check-eligibility / create-loan body that fails field validation
LoanBodyFails(request) ==
    \/ ~({"customer_id", "loan_amount", "interest_rate", "tenure"}
            \subseteq DOMAIN request)
    \/ request.interest_rate <= -100000
    \/ request.interest_rate >= 100000

NothingStored ==
    /\ customers' = customers
    /\ loans' = loans
    /\ credit_scores' = credit_scores
    /\ applications' = applications

C22_Step ==
    /\ (resp'.op = "register" /\ RegisterBodyFails(resp'.request))
           => (resp'.status = 400 /\ NothingStored)
    /\ (resp'.op \in LoanRequestOps /\ LoanBodyFails(resp'.request))
           => (resp'.status = 400 /\ NothingStored)
    /\ (/\ resp'.op \in LoanRequestOps
        /\ ~LoanBodyFails(resp'.request)
        /\ \A i \in 1..Len(customers) :
               customers[i].customer_id # resp'.request.customer_id)
           => (resp'.status = 404 /\ NothingStored)

\* C22: a register, check-eligibility or create-loan request that fails field
\* validation is answered with 400, one that names an unknown customer with
\* 404; in both cases no customer, application or loan is created and no
\* stored record changes.
C22_InvalidRequestsStoreNothing == [][C22_Step]_vars

\* a create-loan for an unknown customer answered with 404, in a system that
\* holds a customer and an application
C22_Witness ==
    /\ resp.op = "create_loan"
    /\ resp.status = 404
    /\ Len(customers) > 0
    /\ Len(applications) > 0

\* the other rejections happen too: a phone number in use, a missing field
C22_OtherRejectionsReached ==
    \/ /\ resp.op = "register"
       /\ resp.status = 400
       /\ "phone_number" \in DOMAIN resp.request
       /\ \E i \in 1..Len(customers) :
              customers[i].phone_number = resp.request.phone_number
    \/ /\ resp.op = "check_eligibility"
       /\ resp.status = 400
       /\ ~("tenure" \in DOMAIN resp.request)

-----------------------------------------------------------------------------
(* C23 *)

\* no two customers of cs share a phone number, no two loans of ls a loan id
UniqueKeys(cs, ls) ==
    /\ \A i, j \in 1..Len(cs) :
           cs[i].phone_number = cs[j].phone_number => i = j
    /\ \A i, j \in 1..Len(ls) :
           ls[i].loan_id = ls[j].loan_id => i = j

IngestionOps == {"load_customers", "load_loans"}

\* an ingestion run that directly follows a run of the same file
RunAgain ==
    /\ resp.op \in IngestionOps
    /\ resp'.op = resp.op
    /\ resp'.request = resp.request

C23_Step ==
    /\ UniqueKeys(customers', loans')
    /\ RunAgain => (customers' = customers /\ loans' = loans)

C23_SecondRunReached ==
    /\ resp.op = "load_loans"
    /\ resp.body.loans_created = 0
    /\ Len(loans) > 0

-----------------------------------------------------------------------------
(* C24 *)

\* no ingestion task is inside a row
IngestionCompleted == \A t \in LoanTasks : in_flight.ingest[t].pc = "idle"

\* C24: when loan-adding operations for one customer ran concurrently, then
\* after all of them have completed the customer's current_debt equals the sum
\* of loan_amount over all the customer's loans: no update is lost.
C24_NoLostUpdate ==
    IngestionCompleted =>
        \A cid \in 1..Len(customers) :
            customers[cid].current_debt = TotalAmountIn(loans, cid)

\* two tasks have completed, the customer holds both loans and current_debt
\* is the amount of one of them
C24_Witness ==
    /\ IngestionCompleted
    /\ resp.op = "ingest_update"
    /\ Cardinality(LoanIdxIn(loans, resp.body.customer)) = 2
    /\ \E i \in LoanIdxIn(loans, resp.body.customer) :
          customers[resp.body.customer].current_debt = loans[i].loan_amount

-----------------------------------------------------------------------------
(* C25 *)

\* the scores of the records stored for customer cid, current or superseded
StoredScores(cid) ==
    {credit_scores[k].score :
        k \in {i \in 1..Len(credit_scores) : credit_scores[i].customer = cid}}

\* C25: replacing the current score is atomic towards readers: a create-loan
\* for a customer who has a score record decides on the score of a stored
\* record, the old or the new one, never on the default 50 of a customer
\* without a current score.
C25_ReaderSeesStoredScore ==
    (CreateDecided /\ StoredScores(resp.request.customer_id) # {})
        => resp.decision[1].credit_score \in StoredScores(resp.request.customer_id)

\* C25 for the refresh task, which rewrites the current record in place: while
\* it is between two statements and no other writer is, the customer's current
\* record is in the table
C25_RefreshLeavesNoGap ==
    (/\ in_flight.refresh.pc \in {"save", "update"}
     /\ \A w \in ScoreWriters : in_flight.save[w].pc = "idle")
        => CurrentPks(credit_scores, in_flight.refresh.customer) # {}

\* a create-loan that found no current score between the two statements of a
\* writer replacing the score 30, and approved on the default 50
C25_Witness ==
    /\ CreateDecided
    /\ resp.decision[1].credit_score = 50
    /\ resp.decision[1].approved
    /\ StoredScores(resp.request.customer_id) = {30}
    /\ \E w \in ScoreWriters :
          /\ in_flight.save[w].pc = "insert"
          /\ in_flight.save[w].customer = resp.request.customer_id

-----------------------------------------------------------------------------
(* C26 *)

\* C26: under any interleaving of create-loan requests, the principal of a
\* customer's active loans never exceeds the customer's approved limit.
C26_ActivePrincipalWithinLimit ==
    \A cid \in 1..Len(customers) :
        ActivePrincipal(cid) <= customers[cid].approved_limit

\* two approved loans of 1,000,000 each, active, for a customer whose approved
\* limit is 1,800,000
C26_Witness ==
    /\ CreateDecided
    /\ resp.body.loan_approved
    /\ Len(applications) = 2
    /\ \A i \in 1..2 : applications[i].status = "APPROVED"
    /\ ActivePrincipal(resp.request.customer_id)
           > customers[resp.request.customer_id].approved_limit

-----------------------------------------------------------------------------
(* C27 *)

\* C27: after any sequence of create-loan requests for a customer who starts
\* with no loans, the monthly repayments of the customer's active loans add up
\* to at most half of the customer's monthly salary.
C27_RepaymentsWithinHalfSalary ==
    \A cid \in 1..Len(customers) :
        2 * ActiveRepayments(cid) <= customers[cid].monthly_salary

\* C27 as the code has it: each active loan of a create-loan request is
\* within half the salary by itself
C27_EachRepaymentWithinHalfSalary ==
    \A cid \in 1..Len(customers) :
        \A i \in ActiveLoanIdx(cid) :
            2 * loans[i].monthly_repayment <= customers[cid].monthly_salary

\* a second loan was approved although the repayments of the first one and
\* its own exceed half the salary
C27_Witness ==
    /\ CreateDecided
    /\ resp.body.loan_approved
    /\ Cardinality(ActiveLoanIdx(resp.request.customer_id)) = 2
    /\ 2 * ActiveRepayments(resp.request.customer_id)
           > customers[resp.request.customer_id].monthly_salary

-----------------------------------------------------------------------------
(* C28 *)

\* C28: for every loan with tenure >= 1 and at every date,
\* 0 <= repayments_left <= tenure; from one day to the next repayments_left
\* never increases (so an inactive loan stays inactive); and the loan of an
\* approved create-loan is active on the day it is created.
C28_RepaymentsLeft ==
    /\ \A i \in 1..Len(loans) :
          loans[i].tenure >= 1 =>
              \A d \in Days :
                  LET left == repayments_left_on(loans[i], d)
                  IN /\ 0 <= left
                     /\ left <= loans[i].tenure
                     /\ (d + 1) \in Days =>
                            repayments_left_on(loans[i], d + 1) <= left
    /\ (CreateDecided /\ resp.body.loan_approved /\ resp.request.tenure >= 1)
          => repayments_left_on(loans[Len(loans)], today) > 0

\* a loan created by create-loan on an earlier day has run out, while an
\* ingested loan whose end date lies ahead is held at 0 by the floor
C28_Witness ==
    /\ \E i \in 1..Len(loans) :
          /\ loans[i].start_date \in {CalendarDays[k] : k \in 1..Len(CalendarDays)}
          /\ loans[i].start_date < today
          /\ repayments_left_on(loans[i], loans[i].start_date) = loans[i].tenure
          /\ repayments_left_on(loans[i], today) = 0
    /\ \E i \in 1..Len(loans) :
          /\ today < loans[i].end_date
          /\ repayments_left_on(loans[i], today) = 0

-----------------------------------------------------------------------------
(* C29 *)

\* the rows of the ingested spreadsheets
CustomerFileRows == UNION {{file[k] : k \in 1..Len(file)} : file \in CustomerFiles}

LoanFileRows == UNION {{file[k] : k \in 1..Len(file)} : file \in LoanFiles}

\* the stored loan came from the spreadsheet row r
LoadedFrom(loan, r) ==
    /\ loan.loan_id = r.loan_id
    /\ loan.loan_amount = r.loan_amount
    /\ loan.start_date = r.start_date
    /\ loan.end_date = r.end_date

\* the customers of the spreadsheet are stored: customer ingestion has run
CustomersIngested ==
    \A c \in CustomerFileRows :
        \E k \in 1..Len(customers) : customers[k].phone_number = c.phone_number

\* the loans a step has added are attached to the customer row whose id is
\* the loan row's customer id
AddedLoansFollowFile ==
    \A i \in (Len(loans) + 1)..Len(loans') :
        \A r \in LoanFileRows :
            LoadedFrom(loans'[i], r) =>
                \A c \in CustomerFileRows :
                    c.customer_id = r.customer_id =>
                        customers[loans'[i].customer].phone_number = c.phone_number

\* C29: after customer ingestion followed by loan ingestion, every loaded
\* loan is attached to the customer the input identifies, the customer row
\* whose customer id equals the loan row's customer id, whatever customers
\* existed before the ingestion.
C29_LoansFollowFileCustomer ==
    [][(resp'.op = "load_loans" /\ CustomersIngested) => AddedLoansFollowFile]_vars

\* C29 when the customer table was empty before the customer ingestion: the
\* stored ids are the ids of the spreadsheet
C29_LoansFollowFileCustomerOnEmptyTable ==
    [][(/\ resp'.op = "load_loans"
        /\ \A c \in CustomerFileRows :
               /\ c.customer_id <= Len(customers)
               /\ customers[c.customer_id].phone_number = c.phone_number)
          => AddedLoansFollowFile]_vars

\* the spreadsheet's customer 1 is stored as customer 2, because a customer was
\* registered before, and the loans of the spreadsheet's customer 1 are
\* attached to the registered customer
C29_Witness ==
    /\ resp.op = "load_loans"
    /\ Len(customers) = 2
    /\ customers[2].phone_number = CustomerRow1.phone_number
    /\ customers[1].phone_number # CustomerRow1.phone_number
    /\ \E i \in 1..Len(loans) :
          /\ LoadedFrom(loans[i], LoanRow1)
          /\ loans[i].customer = 1

====
